---------------------------- MODULE Spec2Model ----------------------------
(***************************************************************************)
(* Model of src/Common/raw_root_trees.py: the three dataclass records      *)
(* RawShowerTree, RawEfieldTree and RawZHAireSTree, their column defaults  *)
(* and the property setters and getters of every column.                   *)
(*                                                                         *)
(* A behaviour constructs up to two records of one class and assigns to    *)
(* one property of them (cls and fld are drawn in Init and range over      *)
(* every property of every class).  Python values are records of one       *)
(* shape, PyVal; numbers are integers, and the narrowing to 32-bit floats   *)
(* is computed on them (F32).                                               *)
(*                                                                         *)
(* Further specifications over the same variables: SpecOne (one record    *)
(* alone), SpecTree (a record with its tree: branches made, rows filled), *)
(* SpecAttr (attribute                                                    *)
(* access by name), SpecAppend (mutation through the value a getter       *)
(* returns), SpecAlign (the per-antenna columns of an efield record),     *)
(* SpecAlias (the caller changes the value it assigned), SpecGot (the     *)
(* caller changes the value a getter returned), SpecTrace (the combined   *)
(* trace view of an efield record) and SpecShare (one native vector       *)
(* given to two columns of a record).                                     *)
(***************************************************************************)
EXTENDS Integers, Sequences, FiniteSets, TLC

VARIABLES cls, fld, recs, cstr, last, tree

vars == <<cls, fld, recs, cstr, last, tree>>

(***************************************************************************)
(* Bounds of the model.                                                    *)
(***************************************************************************)
\* longest plain list of numbers offered to a setter
MaxLen == 3

\* 2^24: largest width of a float32 significand
F32Mantissa == 16777216

\* an integer a 32-bit float cannot represent (2^24 + 1)
Big == F32Mantissa + 1

\* the records of a behaviour
Insts == {"A", "B"}

(***************************************************************************)
(* The schema: one row per property, read off the class body and the       *)
(* property pair of the column.                                            *)
(*   decl, vt, len  the dataclass field default (object type, element or   *)
(*                  vector type, length of np.zeros)                       *)
(*   setter         shape of the setter body                               *)
(*   gate           the setter accepts np.ndarray and StdVectorList        *)
(*   nat            the ROOT.vector type the setter accepts                *)
(*   msg            the name the setter's error message prints             *)
(*   astype         dtype of the replacing array                           *)
(*   sattr, gattr   attribute the setter writes, the getter reads          *)
(*   getter         shape of the getter body                               *)
(***************************************************************************)
ShowerColumns ==
  [
    shower_sim |->
      [decl |-> "StdString", vt |-> "", len |-> 0, setter |-> "string", gate |-> FALSE,
       nat |-> "", msg |-> "site", astype |-> "", sattr |-> "shower_sim",
       getter |-> "str", gattr |-> "shower_sim"],
    long_depth |->
      [decl |-> "StdVectorList", vt |-> "vector<float>", len |-> 0, setter |-> "vec", gate |-> TRUE,
       nat |-> "vector<float>", msg |-> "_long_depth", astype |-> "", sattr |-> "long_depth",
       getter |-> "wrapper", gattr |-> "long_depth"],
    long_slantdepth |->
      [decl |-> "StdVectorList", vt |-> "vector<float>", len |-> 0, setter |-> "vec", gate |-> TRUE,
       nat |-> "vector<float>", msg |-> "_long_slantdepth", astype |-> "", sattr |-> "long_slantdepth",
       getter |-> "wrapper", gattr |-> "long_slantdepth"],
    long_gammas |->
      [decl |-> "StdVectorList", vt |-> "vector<float>", len |-> 0, setter |-> "vec", gate |-> TRUE,
       nat |-> "vector<float>", msg |-> "_long_gammas", astype |-> "", sattr |-> "long_gammas",
       getter |-> "wrapper", gattr |-> "long_gammas"],
    long_eplus |->
      [decl |-> "StdVectorList", vt |-> "vector<float>", len |-> 0, setter |-> "vec", gate |-> TRUE,
       nat |-> "vector<float>", msg |-> "_long_eplus", astype |-> "", sattr |-> "long_eplus",
       getter |-> "wrapper", gattr |-> "long_eplus"],
    long_eminus |->
      [decl |-> "StdVectorList", vt |-> "vector<float>", len |-> 0, setter |-> "vec", gate |-> TRUE,
       nat |-> "vector<float>", msg |-> "_long_eminus", astype |-> "", sattr |-> "long_eminus",
       getter |-> "wrapper", gattr |-> "long_eminus"],
    long_muplus |->
      [decl |-> "StdVectorList", vt |-> "vector<float>", len |-> 0, setter |-> "vec", gate |-> TRUE,
       nat |-> "vector<float>", msg |-> "_long_muplus", astype |-> "", sattr |-> "long_muplus",
       getter |-> "wrapper", gattr |-> "long_muplus"],
    long_muminus |->
      [decl |-> "StdVectorList", vt |-> "vector<float>", len |-> 0, setter |-> "vec", gate |-> TRUE,
       nat |-> "vector<float>", msg |-> "_long_muminus", astype |-> "", sattr |-> "long_muminus",
       getter |-> "wrapper", gattr |-> "long_muminus"],
    long_allch |->
      [decl |-> "StdVectorList", vt |-> "vector<float>", len |-> 0, setter |-> "vec", gate |-> TRUE,
       nat |-> "vector<float>", msg |-> "_long_allch", astype |-> "", sattr |-> "long_allch",
       getter |-> "wrapper", gattr |-> "long_allch"],
    long_nuclei |->
      [decl |-> "StdVectorList", vt |-> "vector<float>", len |-> 0, setter |-> "vec", gate |-> TRUE,
       nat |-> "vector<float>", msg |-> "_long_nuclei", astype |-> "", sattr |-> "long_nuclei",
       getter |-> "wrapper", gattr |-> "long_nuclei"],
    long_hadr |->
      [decl |-> "StdVectorList", vt |-> "vector<float>", len |-> 0, setter |-> "vec", gate |-> TRUE,
       nat |-> "vector<float>", msg |-> "_long_hadr", astype |-> "", sattr |-> "long_hadr",
       getter |-> "wrapper", gattr |-> "long_hadr"],
    long_neutrino |->
      [decl |-> "StdVectorList", vt |-> "vector<float>", len |-> 0, setter |-> "vec", gate |-> TRUE,
       nat |-> "vector<float>", msg |-> "_long_neutrino", astype |-> "", sattr |-> "long_neutrino",
       getter |-> "wrapper", gattr |-> "long_neutrino"],
    long_gamma_cut |->
      [decl |-> "StdVectorList", vt |-> "vector<float>", len |-> 0, setter |-> "vec", gate |-> TRUE,
       nat |-> "vector<float>", msg |-> "_long_gamma_cut", astype |-> "", sattr |-> "long_gamma_cut",
       getter |-> "wrapper", gattr |-> "long_gamma_cut"],
    long_gamma_ioniz |->
      [decl |-> "StdVectorList", vt |-> "vector<float>", len |-> 0, setter |-> "vec", gate |-> TRUE,
       nat |-> "vector<float>", msg |-> "_long_gamma_ioniz", astype |-> "", sattr |-> "long_gamma_ioniz",
       getter |-> "wrapper", gattr |-> "long_gamma_ioniz"],
    long_e_cut |->
      [decl |-> "StdVectorList", vt |-> "vector<float>", len |-> 0, setter |-> "vec", gate |-> TRUE,
       nat |-> "vector<float>", msg |-> "_long_e_cut", astype |-> "", sattr |-> "long_e_cut",
       getter |-> "wrapper", gattr |-> "long_e_cut"],
    long_e_ioniz |->
      [decl |-> "StdVectorList", vt |-> "vector<float>", len |-> 0, setter |-> "vec", gate |-> TRUE,
       nat |-> "vector<float>", msg |-> "_long_e_ioniz", astype |-> "", sattr |-> "long_e_ioniz",
       getter |-> "wrapper", gattr |-> "long_e_ioniz"],
    long_mu_cut |->
      [decl |-> "StdVectorList", vt |-> "vector<float>", len |-> 0, setter |-> "vec", gate |-> TRUE,
       nat |-> "vector<float>", msg |-> "_long_mu_cut", astype |-> "", sattr |-> "long_mu_cut",
       getter |-> "wrapper", gattr |-> "long_mu_cut"],
    long_mu_ioniz |->
      [decl |-> "StdVectorList", vt |-> "vector<float>", len |-> 0, setter |-> "vec", gate |-> TRUE,
       nat |-> "vector<float>", msg |-> "_long_mu_ioniz", astype |-> "", sattr |-> "long_mu_ioniz",
       getter |-> "wrapper", gattr |-> "long_mu_ioniz"],
    long_hadr_cut |->
      [decl |-> "StdVectorList", vt |-> "vector<float>", len |-> 0, setter |-> "vec", gate |-> TRUE,
       nat |-> "vector<float>", msg |-> "_long_hadr_cut", astype |-> "", sattr |-> "long_hadr_cut",
       getter |-> "wrapper", gattr |-> "long_hadr_cut"],
    long_hadr_ioniz |->
      [decl |-> "StdVectorList", vt |-> "vector<float>", len |-> 0, setter |-> "vec", gate |-> TRUE,
       nat |-> "vector<float>", msg |-> "_long_hadr_ioniz", astype |-> "", sattr |-> "long_hadr_ioniz",
       getter |-> "wrapper", gattr |-> "long_hadr_ioniz"],
    relative_thinning |->
      [decl |-> "ndarray", vt |-> "float64", len |-> 1, setter |-> "elem0", gate |-> FALSE,
       nat |-> "", msg |-> "", astype |-> "", sattr |-> "relative_thinning",
       getter |-> "elem0", gattr |-> "relative_thinning"],
    weight_factor |->
      [decl |-> "ndarray", vt |-> "float64", len |-> 1, setter |-> "elem0", gate |-> FALSE,
       nat |-> "", msg |-> "", astype |-> "", sattr |-> "weight_factor",
       getter |-> "elem0", gattr |-> "weight_factor"],
    gamma_energy_cut |->
      [decl |-> "ndarray", vt |-> "float64", len |-> 1, setter |-> "elem0", gate |-> FALSE,
       nat |-> "", msg |-> "", astype |-> "", sattr |-> "gamma_energy_cut",
       getter |-> "elem0", gattr |-> "gamma_energy_cut"],
    electron_energy_cut |->
      [decl |-> "ndarray", vt |-> "float64", len |-> 1, setter |-> "elem0", gate |-> FALSE,
       nat |-> "", msg |-> "", astype |-> "", sattr |-> "electron_energy_cut",
       getter |-> "elem0", gattr |-> "electron_energy_cut"],
    muon_energy_cut |->
      [decl |-> "ndarray", vt |-> "float64", len |-> 1, setter |-> "elem0", gate |-> FALSE,
       nat |-> "", msg |-> "", astype |-> "", sattr |-> "muon_energy_cut",
       getter |-> "elem0", gattr |-> "muon_energy_cut"],
    meson_energy_cut |->
      [decl |-> "ndarray", vt |-> "float64", len |-> 1, setter |-> "elem0", gate |-> FALSE,
       nat |-> "", msg |-> "", astype |-> "", sattr |-> "meson_energy_cut",
       getter |-> "elem0", gattr |-> "meson_energy_cut"],
    nucleon_energy_cut |->
      [decl |-> "ndarray", vt |-> "float64", len |-> 1, setter |-> "elem0", gate |-> FALSE,
       nat |-> "", msg |-> "", astype |-> "", sattr |-> "nucleon_energy_cut",
       getter |-> "elem0", gattr |-> "nucleon_energy_cut"],
    event_name |->
      [decl |-> "StdString", vt |-> "", len |-> 0, setter |-> "string", gate |-> FALSE,
       nat |-> "", msg |-> "event_name", astype |-> "", sattr |-> "event_name",
       getter |-> "str", gattr |-> "event_name"],
    event_date |->
      [decl |-> "StdString", vt |-> "", len |-> 0, setter |-> "string", gate |-> FALSE,
       nat |-> "", msg |-> "date", astype |-> "", sattr |-> "event_date",
       getter |-> "str", gattr |-> "date"],
    rnd_seed |->
      [decl |-> "ndarray", vt |-> "float64", len |-> 1, setter |-> "elem0", gate |-> FALSE,
       nat |-> "", msg |-> "", astype |-> "", sattr |-> "rnd_seed",
       getter |-> "elem0", gattr |-> "rnd_seed"],
    energy_in_neutrinos |->
      [decl |-> "ndarray", vt |-> "float32", len |-> 1, setter |-> "elem0", gate |-> FALSE,
       nat |-> "", msg |-> "", astype |-> "", sattr |-> "energy_in_neutrinos",
       getter |-> "elem0", gattr |-> "energy_in_neutrinos"],
    energy_primary |->
      [decl |-> "StdVectorList", vt |-> "float", len |-> 0, setter |-> "vec", gate |-> FALSE,
       nat |-> "float", msg |-> "energy_primary", astype |-> "", sattr |-> "energy_primary",
       getter |-> "wrapper", gattr |-> "energy_primary"],
    azimuth |->
      [decl |-> "ndarray", vt |-> "float32", len |-> 1, setter |-> "elem0", gate |-> FALSE,
       nat |-> "", msg |-> "", astype |-> "", sattr |-> "azimuth",
       getter |-> "elem0", gattr |-> "azimuth"],
    zenith |->
      [decl |-> "ndarray", vt |-> "float32", len |-> 1, setter |-> "elem0", gate |-> FALSE,
       nat |-> "", msg |-> "", astype |-> "", sattr |-> "zenith",
       getter |-> "elem0", gattr |-> "zenith"],
    primary_type |->
      [decl |-> "StdVectorList", vt |-> "string", len |-> 0, setter |-> "vec", gate |-> FALSE,
       nat |-> "string", msg |-> "primary_type", astype |-> "", sattr |-> "primary_type",
       getter |-> "wrapper", gattr |-> "primary_type"],
    prim_injpoint_shc |->
      [decl |-> "StdVectorList", vt |-> "vector<float>", len |-> 0, setter |-> "sovov", gate |-> TRUE,
       nat |-> "vector<float>", msg |-> "prim_injpoint_shc", astype |-> "", sattr |-> "prim_injpoint_shc",
       getter |-> "nparray", gattr |-> "prim_injpoint_shc"],
    prim_inj_alt_shc |->
      [decl |-> "StdVectorList", vt |-> "float", len |-> 0, setter |-> "vec", gate |-> TRUE,
       nat |-> "float", msg |-> "prim_inj_alt_shc", astype |-> "", sattr |-> "prim_inj_alt_shc",
       getter |-> "wrapper", gattr |-> "prim_inj_alt_shc"],
    prim_inj_dir_shc |->
      [decl |-> "StdVectorList", vt |-> "vector<float>", len |-> 0, setter |-> "sovov", gate |-> TRUE,
       nat |-> "vector<float>", msg |-> "prim_inj_dir_shc", astype |-> "", sattr |-> "prim_inj_dir_shc",
       getter |-> "nparray", gattr |-> "prim_inj_dir_shc"],
    atmos_model |->
      [decl |-> "StdString", vt |-> "", len |-> 0, setter |-> "string", gate |-> FALSE,
       nat |-> "", msg |-> "site", astype |-> "", sattr |-> "atmos_model",
       getter |-> "str", gattr |-> "atmos_model"],
    atmos_model_param |->
      [decl |-> "ndarray", vt |-> "float32", len |-> 3, setter |-> "replace", gate |-> FALSE,
       nat |-> "", msg |-> "", astype |-> "float32", sattr |-> "atmos_model_param",
       getter |-> "nparray", gattr |-> "atmos_model_param"],
    atmos_altitude |->
      [decl |-> "StdVectorList", vt |-> "vector<float>", len |-> 0, setter |-> "vec", gate |-> TRUE,
       nat |-> "vector<float>", msg |-> "atmos_altitude", astype |-> "", sattr |-> "atmos_altitude",
       getter |-> "wrapper", gattr |-> "atmos_altitude"],
    atmos_density |->
      [decl |-> "StdVectorList", vt |-> "vector<float>", len |-> 0, setter |-> "vec", gate |-> TRUE,
       nat |-> "vector<float>", msg |-> "atmos_density", astype |-> "", sattr |-> "atmos_density",
       getter |-> "wrapper", gattr |-> "atmos_density"],
    atmos_depth |->
      [decl |-> "StdVectorList", vt |-> "vector<float>", len |-> 0, setter |-> "vec", gate |-> TRUE,
       nat |-> "vector<float>", msg |-> "atmos_depth", astype |-> "", sattr |-> "atmos_depth",
       getter |-> "wrapper", gattr |-> "atmos_depth"],
    magnetic_field |->
      [decl |-> "ndarray", vt |-> "float32", len |-> 3, setter |-> "replace", gate |-> FALSE,
       nat |-> "", msg |-> "", astype |-> "float32", sattr |-> "magnetic_field",
       getter |-> "nparray", gattr |-> "magnetic_field"],
    xmax_grams |->
      [decl |-> "ndarray", vt |-> "float32", len |-> 1, setter |-> "elem0", gate |-> FALSE,
       nat |-> "", msg |-> "", astype |-> "", sattr |-> "xmax_grams",
       getter |-> "elem0", gattr |-> "xmax_grams"],
    xmax_pos_shc |->
      [decl |-> "ndarray", vt |-> "float64", len |-> 3, setter |-> "replace", gate |-> FALSE,
       nat |-> "", msg |-> "", astype |-> "float64", sattr |-> "xmax_pos_shc",
       getter |-> "nparray", gattr |-> "xmax_pos_shc"],
    xmax_distance |->
      [decl |-> "ndarray", vt |-> "float64", len |-> 1, setter |-> "elem0", gate |-> FALSE,
       nat |-> "", msg |-> "", astype |-> "", sattr |-> "xmax_distance",
       getter |-> "elem0", gattr |-> "xmax_distance"],
    xmax_alt |->
      [decl |-> "ndarray", vt |-> "float64", len |-> 1, setter |-> "elem0", gate |-> FALSE,
       nat |-> "", msg |-> "", astype |-> "", sattr |-> "xmax_alt",
       getter |-> "elem0", gattr |-> "xmax_alt"],
    hadronic_model |->
      [decl |-> "StdString", vt |-> "", len |-> 0, setter |-> "string", gate |-> FALSE,
       nat |-> "", msg |-> "site", astype |-> "", sattr |-> "hadronic_model",
       getter |-> "str", gattr |-> "hadronic_model"],
    low_energy_model |->
      [decl |-> "StdString", vt |-> "", len |-> 0, setter |-> "string", gate |-> FALSE,
       nat |-> "", msg |-> "site", astype |-> "", sattr |-> "low_energy_model",
       getter |-> "str", gattr |-> "low_energy_model"],
    cpu_time |->
      [decl |-> "ndarray", vt |-> "float32", len |-> 1, setter |-> "replace", gate |-> FALSE,
       nat |-> "", msg |-> "", astype |-> "float32", sattr |-> "cpu_time",
       getter |-> "nparray", gattr |-> "cpu_time"],
    shower_core_pos |->
      [decl |-> "ndarray", vt |-> "float32", len |-> 3, setter |-> "replace", gate |-> FALSE,
       nat |-> "", msg |-> "", astype |-> "float32", sattr |-> "shower_core_pos",
       getter |-> "nparray", gattr |-> "shower_core_pos"],
    unix_date |->
      [decl |-> "ndarray", vt |-> "uint32", len |-> 1, setter |-> "elem0", gate |-> FALSE,
       nat |-> "", msg |-> "", astype |-> "", sattr |-> "unix_date",
       getter |-> "elem0", gattr |-> "run_number"]
  ]

EfieldColumns ==
  [
    du_count |->
      [decl |-> "ndarray", vt |-> "uint32", len |-> 1, setter |-> "elem0", gate |-> FALSE,
       nat |-> "", msg |-> "", astype |-> "", sattr |-> "du_count",
       getter |-> "elem0", gattr |-> "du_count"],
    efield_sim |->
      [decl |-> "StdString", vt |-> "", len |-> 0, setter |-> "string", gate |-> FALSE,
       nat |-> "", msg |-> "site", astype |-> "", sattr |-> "efield_sim",
       getter |-> "str", gattr |-> "efield_sim"],
    refractivity_model |->
      [decl |-> "StdString", vt |-> "", len |-> 0, setter |-> "string", gate |-> FALSE,
       nat |-> "", msg |-> "site", astype |-> "", sattr |-> "refractivity_model",
       getter |-> "str", gattr |-> "refractivity_model"],
    refractivity_model_parameters |->
      [decl |-> "StdVectorList", vt |-> "double", len |-> 0, setter |-> "vec", gate |-> TRUE,
       nat |-> "double", msg |-> "refractivity_model_parameters", astype |-> "", sattr |-> "refractivity_model_parameters",
       getter |-> "wrapper", gattr |-> "refractivity_model_parameters"],
    atmos_refractivity |->
      [decl |-> "StdVectorList", vt |-> "vector<float>", len |-> 0, setter |-> "vec", gate |-> TRUE,
       nat |-> "vector<float>", msg |-> "atmos_refractivity", astype |-> "", sattr |-> "atmos_refractivity",
       getter |-> "wrapper", gattr |-> "atmos_refractivity"],
    t_pre |->
      [decl |-> "ndarray", vt |-> "float32", len |-> 1, setter |-> "elem0", gate |-> FALSE,
       nat |-> "", msg |-> "", astype |-> "", sattr |-> "t_pre",
       getter |-> "elem0", gattr |-> "t_pre"],
    t_post |->
      [decl |-> "ndarray", vt |-> "float32", len |-> 1, setter |-> "elem0", gate |-> FALSE,
       nat |-> "", msg |-> "", astype |-> "", sattr |-> "t_post",
       getter |-> "elem0", gattr |-> "t_post"],
    t_bin_size |->
      [decl |-> "ndarray", vt |-> "float32", len |-> 1, setter |-> "elem0", gate |-> FALSE,
       nat |-> "", msg |-> "", astype |-> "", sattr |-> "t_bin_size",
       getter |-> "elem0", gattr |-> "t_bin_size"],
    du_id |->
      [decl |-> "StdVectorList", vt |-> "int", len |-> 0, setter |-> "vec", gate |-> TRUE,
       nat |-> "int", msg |-> "du_id", astype |-> "", sattr |-> "du_id",
       getter |-> "wrapper", gattr |-> "du_id"],
    du_name |->
      [decl |-> "StdVectorList", vt |-> "string", len |-> 0, setter |-> "vec", gate |-> FALSE,
       nat |-> "string", msg |-> "du_name", astype |-> "", sattr |-> "du_name",
       getter |-> "wrapper", gattr |-> "du_name"],
    t_0 |->
      [decl |-> "StdVectorList", vt |-> "float", len |-> 0, setter |-> "vec", gate |-> TRUE,
       nat |-> "float", msg |-> "t_0", astype |-> "", sattr |-> "t_0",
       getter |-> "wrapper", gattr |-> "t_0"],
    p2p |->
      [decl |-> "StdVectorList", vt |-> "float", len |-> 0, setter |-> "vec", gate |-> TRUE,
       nat |-> "float", msg |-> "p2p", astype |-> "", sattr |-> "p2p",
       getter |-> "wrapper", gattr |-> "p2p"],
    trace_x |->
      [decl |-> "StdVectorList", vt |-> "vector<float>", len |-> 0, setter |-> "vec", gate |-> TRUE,
       nat |-> "vector<float>", msg |-> "trace_x", astype |-> "", sattr |-> "trace_x",
       getter |-> "wrapper", gattr |-> "trace_x"],
    trace_y |->
      [decl |-> "StdVectorList", vt |-> "vector<float>", len |-> 0, setter |-> "vec", gate |-> TRUE,
       nat |-> "vector<float>", msg |-> "trace_y", astype |-> "", sattr |-> "trace_y",
       getter |-> "wrapper", gattr |-> "trace_y"],
    trace_z |->
      [decl |-> "StdVectorList", vt |-> "vector<float>", len |-> 0, setter |-> "vec", gate |-> TRUE,
       nat |-> "vector<float>", msg |-> "trace_z", astype |-> "", sattr |-> "trace_z",
       getter |-> "wrapper", gattr |-> "trace_z"],
    du_x |->
      [decl |-> "StdVectorList", vt |-> "float", len |-> 0, setter |-> "vec", gate |-> TRUE,
       nat |-> "float", msg |-> "du_x", astype |-> "", sattr |-> "du_x",
       getter |-> "wrapper", gattr |-> "du_x"],
    du_y |->
      [decl |-> "StdVectorList", vt |-> "float", len |-> 0, setter |-> "vec", gate |-> TRUE,
       nat |-> "float", msg |-> "du_y", astype |-> "", sattr |-> "du_y",
       getter |-> "wrapper", gattr |-> "du_y"],
    du_z |->
      [decl |-> "StdVectorList", vt |-> "float", len |-> 0, setter |-> "vec", gate |-> TRUE,
       nat |-> "float", msg |-> "du_z", astype |-> "", sattr |-> "du_z",
       getter |-> "wrapper", gattr |-> "du_z"]
  ]

ZHAireSColumns ==
  [
    relative_thining |->
      [decl |-> "StdString", vt |-> "", len |-> 0, setter |-> "string", gate |-> FALSE,
       nat |-> "", msg |-> "relative_thining", astype |-> "", sattr |-> "relative_thining",
       getter |-> "str", gattr |-> "relative_thining"],
    weight_factor |->
      [decl |-> "ndarray", vt |-> "float64", len |-> 1, setter |-> "elem0", gate |-> FALSE,
       nat |-> "", msg |-> "", astype |-> "", sattr |-> "weight_factor",
       getter |-> "elem0", gattr |-> "weight_factor"],
    gamma_energy_cut |->
      [decl |-> "StdString", vt |-> "", len |-> 0, setter |-> "string", gate |-> FALSE,
       nat |-> "", msg |-> "gamma_energy_cut", astype |-> "", sattr |-> "gamma_energy_cut",
       getter |-> "str", gattr |-> "gamma_energy_cut"],
    electron_energy_cut |->
      [decl |-> "StdString", vt |-> "", len |-> 0, setter |-> "string", gate |-> FALSE,
       nat |-> "", msg |-> "electron_energy_cut", astype |-> "", sattr |-> "electron_energy_cut",
       getter |-> "str", gattr |-> "electron_energy_cut"],
    muon_energy_cut |->
      [decl |-> "StdString", vt |-> "", len |-> 0, setter |-> "string", gate |-> FALSE,
       nat |-> "", msg |-> "muon_energy_cut", astype |-> "", sattr |-> "muon_energy_cut",
       getter |-> "str", gattr |-> "muon_energy_cut"],
    meson_energy_cut |->
      [decl |-> "StdString", vt |-> "", len |-> 0, setter |-> "string", gate |-> FALSE,
       nat |-> "", msg |-> "meson_energy_cut", astype |-> "", sattr |-> "meson_energy_cut",
       getter |-> "str", gattr |-> "meson_energy_cut"],
    nucleon_energy_cut |->
      [decl |-> "StdString", vt |-> "", len |-> 0, setter |-> "string", gate |-> FALSE,
       nat |-> "", msg |-> "nucleon_energy_cut", astype |-> "", sattr |-> "nucleon_energy_cut",
       getter |-> "str", gattr |-> "nucleon_energy_cut"],
    other_parameters |->
      [decl |-> "StdString", vt |-> "", len |-> 0, setter |-> "string", gate |-> FALSE,
       nat |-> "", msg |-> "other_parameters", astype |-> "", sattr |-> "other_parameters",
       getter |-> "str", gattr |-> "other_parameters"]
  ]

Classes == {"RawShowerTree", "RawEfieldTree", "RawZHAireSTree"}

Columns(c) ==
  CASE c = "RawShowerTree" -> ShowerColumns
    [] c = "RawEfieldTree" -> EfieldColumns
    [] c = "RawZHAireSTree" -> ZHAireSColumns

Col(c, f) == Columns(c)[f]

\* TypeTag with one name for every class
TypeTag_Same(c) == [type |-> "rawshower", tree_name |-> "trawshower"]

\* _type and _tree_name of each class
TypeTag(c) ==
  CASE c = "RawShowerTree" -> [type |-> "rawshower", tree_name |-> "trawshower"]
    [] c = "RawEfieldTree" -> [type |-> "rawefield", tree_name |-> "trawefield"]
    [] c = "RawZHAireSTree" ->
         [type |-> "eventshowerzhaires", tree_name |-> "teventshowerzhaires"]

\* attributes a record inherits from MotherEventTree and these classes read
InheritedAttrs == {"run_number"}

(***************************************************************************)
(* Python values.  One record shape for all of them:                       *)
(*   t    the Python type        vt   vector type or dtype                 *)
(*   d    number of dimensions   n, s the number, the text                 *)
(*   v    the elements           ref  the object the value aliases         *)
(* An element is a number, a text or a sequence of numbers.                *)
(***************************************************************************)
EN(n) == [t |-> "num", n |-> n, s |-> "", v |-> <<>>]
ES(s) == [t |-> "str", n |-> 0, s |-> s, v |-> <<>>]
EV(q) == [t |-> "seq", n |-> 0, s |-> "", v |-> q]
\* the float nan, as an element of an array
ENaN  == [t |-> "nan", n |-> 0, s |-> "nan", v |-> <<>>]

PyVal(t, vt, d, n, s, v, ref) ==
  [t |-> t, vt |-> vt, d |-> d, n |-> n, s |-> s, v |-> v, ref |-> ref]

PyList(q)        == PyVal("list", "", 1, 0, "", q, "")
PyArray(dt, d, q) == PyVal("numpy.ndarray", dt, d, 0, "", q, "")
PyArray0(dt, n)  == PyVal("numpy.ndarray", dt, 0, n, "", <<>>, "")
PyWrapper(vt, q) == PyVal("StdVectorList", vt, 1, 0, "", q, "")
PyVector(vt, q)  == PyVal("ROOT.vector", vt, 1, 0, "", q, "")
PyStr(s)         == PyVal("str", "", 0, 0, s, <<>>, "")
PyStdString(s)   == PyVal("ROOT.std.string", "", 0, 0, s, <<>>, "")
PyInt(n)         == PyVal("int", "", 0, n, "", <<>>, "")
PyScalar(dt, n)  == PyVal("numpy.scalar", dt, 0, n, "", <<>>, "")
\* the array of no dimension and the scalar that hold nan
PyArrayNaN(dt)   == PyVal("numpy.ndarray", dt, 0, 0, "nan", <<>>, "")
PyScalarNaN(dt)  == PyVal("numpy.scalar", dt, 0, 0, "nan", <<>>, "")
PyDict           == PyVal("dict", "", 0, 0, "", <<>>, "")
PyObject         == PyVal("RawShowerTree", "", 0, 0, "", <<>>, "")
PyNone           == PyVal("NoneType", "", 0, 0, "", <<>>, "")
\* the class-level StdString object of attribute a
StdStringRef(a)  == PyVal("StdString", "", 0, 0, "", <<>>, a)
\* the wrapper the getter of the assigned column returned: the column itself
PySelf(col)      == PyVal("StdVectorList", col.vt, 1, 0, "", col.v, "self")

\* what a value holds, whatever container holds it
Content(p) == [n |-> p.n, s |-> p.s, v |-> p.v]

(***************************************************************************)
(* numpy conversions                                                       *)
(***************************************************************************)
\* spacing of the 32-bit floats around n
RECURSIVE F32Step(_, _)
F32Step(n, p) ==
  IF (IF n < 0 THEN -n ELSE n) < F32Mantissa * p THEN p ELSE F32Step(n, 2 * p)

\* nearest 32-bit float of a non-negative integer, ties to even
F32Round(n, p) ==
  LET q == n \div p
      r == n % p
  IN  IF 2 * r < p THEN q * p
      ELSE IF 2 * r > p THEN (q + 1) * p
      ELSE IF q % 2 = 0 THEN q * p ELSE (q + 1) * p

\* np.float32(n)
F32(n) == IF n < 0 THEN -F32Round(-n, F32Step(n, 1)) ELSE F32Round(n, F32Step(n, 1))

\* value of n stored in an array of dtype dt
Cast(dt, n) == IF dt = "float32" THEN F32(n) ELSE n

\* float(s), int(s): the texts of this model that spell a number
IsNumeral(s) == s = "7"
ParseNum(s) == 7

\* np.zeros(k, dt)
RECURSIVE Zeros(_)
Zeros(k) == IF k = 0 THEN <<>> ELSE <<EN(0)>> \o Zeros(k - 1)

NpZeros(k, dt) == PyArray(dt, 1, Zeros(k))

AllNum(q) == \A k \in 1..Len(q) : q[k].t = "num"

FloatTypes == {"float32", "float64"}

\* float(e), int(e) of one element of a sequence: a number, nan, or a text
\* that spells a number
Numeric(e) == e.t \in {"num", "nan"} \/ (e.t = "str" /\ IsNumeral(e.s))
NumOf(e) == IF e.t = "str" THEN ParseNum(e.s) ELSE e.n

\* what the cast of an array gives for nan in an integer type
NaNAsInt == 0

\* element e as an array of dtype dt holds it after a cast
AsType(dt, e) ==
  IF e.t = "nan"
  THEN IF dt \in FloatTypes THEN ENaN ELSE EN(NaNAsInt)
  ELSE EN(Cast(dt, NumOf(e)))

\* the array of no dimension that holds element e
NpArray0Of(dt, e) == IF e.t = "nan" THEN PyArrayNaN(dt) ELSE PyArray0(dt, e.n)

\* the elements of q are sequences of numbers of one length
Rows(q) ==
  /\ q # <<>>
  /\ \A k \in 1..Len(q) : q[k].t = "seq" /\ Len(q[k].v) = Len(q[1].v)

\* the types numpy reads as a sequence of elements
SequenceTypes == {"list", "numpy.ndarray", "StdVectorList", "ROOT.vector"}

\* the element a value of no dimension holds
ItemOf(x) == IF x.s = "nan" THEN ENaN ELSE EN(x.n)

\* np.array(value).astype(dt): the array, or the exception numpy raises
NpArrayAstype(x, dt) ==
  CASE x.t = "int" -> [exc |-> "", arr |-> PyArray0(dt, Cast(dt, x.n))]
    [] x.t = "str" ->
         IF IsNumeral(x.s)
         THEN [exc |-> "", arr |-> PyArray0(dt, Cast(dt, ParseNum(x.s)))]
         ELSE [exc |-> "numpy.ValueError", arr |-> PyNone]
    [] x.t = "NoneType" ->
         IF dt \in FloatTypes
         THEN [exc |-> "", arr |-> PyArrayNaN(dt)]
         ELSE [exc |-> "numpy.TypeError", arr |-> PyNone]
    [] x.t = "numpy.scalar" \/ (x.t = "numpy.ndarray" /\ x.d = 0) ->
         [exc |-> "", arr |-> NpArray0Of(dt, AsType(dt, ItemOf(x)))]
    [] x.t \in SequenceTypes /\ x.d >= 1 ->
         IF \A k \in 1..Len(x.v) : Numeric(x.v[k])
         THEN [exc |-> "",
               arr |-> PyArray(dt, 1, [k \in 1..Len(x.v) |-> AsType(dt, x.v[k])])]
         ELSE IF Rows(x.v)
         THEN [exc |-> "",
               arr |-> PyArray(dt, 2,
                         [k \in 1..Len(x.v) |->
                            EV([j \in 1..Len(x.v[k].v) |-> Cast(dt, x.v[k].v[j])])])]
         ELSE [exc |-> "numpy.ValueError", arr |-> PyNone]
    [] OTHER -> [exc |-> "numpy.TypeError", arr |-> PyNone]

\* array x holds one element in all
SizeOne(x) ==
  \/ x.d = 0
  \/ x.d = 1 /\ Len(x.v) = 1
  \/ x.d = 2 /\ Len(x.v) = 1 /\ Len(x.v[1].v) = 1

\* the one element of an array that holds one
OnlyItem(x) ==
  CASE x.d = 0 -> ItemOf(x)
    [] x.d = 1 -> x.v[1]
    [] x.d = 2 -> EN(x.v[1].v[1])

\* the element of a numpy scalar or of an array of no dimension, cast into
\* a buffer of dtype dt
SetScalar(dt, e) ==
  IF ~Numeric(e) THEN [exc |-> "numpy.ValueError", e |-> EN(0)]
  ELSE [exc |-> "", e |-> AsType(dt, e)]

\* the one element of an array of one or more dimensions, converted with
\* float(e) or int(e) into a buffer of dtype dt: int(nan) raises
SetOnlyItem(dt, e) ==
  IF ~Numeric(e) \/ (e.t = "nan" /\ dt \notin FloatTypes)
  THEN [exc |-> "numpy.ValueError", e |-> EN(0)]
  ELSE [exc |-> "", e |-> AsType(dt, e)]

\* buf[0] = value on an array of dtype dt: the element stored, or the
\* exception
NpSetItem0(x, dt) ==
  CASE x.t = "int" -> [exc |-> "", e |-> EN(Cast(dt, x.n))]
    [] x.t = "str" ->
         IF IsNumeral(x.s)
         THEN [exc |-> "", e |-> EN(Cast(dt, ParseNum(x.s)))]
         ELSE [exc |-> "numpy.ValueError", e |-> EN(0)]
    [] x.t = "NoneType" ->
         IF dt \in FloatTypes
         THEN [exc |-> "", e |-> ENaN]
         ELSE [exc |-> "numpy.TypeError", e |-> EN(0)]
    [] x.t = "numpy.scalar" -> SetScalar(dt, ItemOf(x))
    [] x.t = "numpy.ndarray" ->
         IF x.d = 0 THEN SetScalar(dt, ItemOf(x))
         ELSE IF SizeOne(x) THEN SetOnlyItem(dt, OnlyItem(x))
         ELSE [exc |-> "numpy.ValueError", e |-> EN(0)]
    [] x.t \in SequenceTypes -> [exc |-> "numpy.ValueError", e |-> EN(0)]
    [] OTHER -> [exc |-> "numpy.TypeError", e |-> EN(0)]

\* b[0] of a one-element buffer
NpGetItem0(obj) ==
  IF obj.v[1].t = "nan" THEN PyScalarNaN(obj.vt) ELSE PyScalar(obj.vt, obj.v[1].n)

\* np.array(obj): a copy of an array; of a wrapper of numbers an array of
\* them; of a wrapper of sequences an array of two dimensions when they
\* have one length, and an error when they have not
NpArray(obj) ==
  IF obj.t = "numpy.ndarray"
  THEN [exc |-> "", val |-> PyVal("numpy.ndarray", obj.vt, obj.d, obj.n, obj.s, obj.v, "")]
  ELSE IF \A k \in 1..Len(obj.v) : obj.v[k].t # "seq"
  THEN [exc |-> "", val |-> PyArray("float64", 1, obj.v)]
  ELSE IF Rows(obj.v)
  THEN [exc |-> "", val |-> PyArray("float64", 2, obj.v)]
  ELSE [exc |-> "numpy.ValueError", val |-> PyNone]

(***************************************************************************)
(* StdVectorList and StdString of root_trees                               *)
(***************************************************************************)
\* push_back accepts the element
PushOK(vt, e) ==
  CASE vt \in {"float", "double", "int"} -> e.t = "num"
    [] vt = "string" -> e.t = "str"
    [] vt = "vector<float>" -> e.t = "seq"

\* the element as the vector stores it
PushConv(vt, e) ==
  CASE vt = "float" -> EN(F32(e.n))
    [] vt = "vector<float>" -> EV([k \in 1..Len(e.v) |-> F32(e.v[k])])
    [] OTHER -> e

\* StdVectorList.append
Append_(col, e) == [col EXCEPT !.v = Append(col.v, PushConv(col.vt, e))]

\* StdVectorList.clear
Clear(col) == [col EXCEPT !.v = <<>>]

\* col += q: appends in order, stops at the first element push_back refuses
RECURSIVE IAdd(_, _)
IAdd(col, q) ==
  IF q = <<>> THEN [col |-> col, exc |-> ""]
  ELSE IF ~PushOK(col.vt, Head(q)) THEN [col |-> col, exc |-> "cppyy.TypeError"]
  ELSE IAdd(Append_(col, Head(q)), Tail(q))

NoMsg == [name |-> "", type |-> ""]

\* f"Incorrect type for {name} {type(value)}. ..."
IncorrectType(name, x) == [name |-> name, type |-> x.t]

(***************************************************************************)
(* The setters.  Each takes the record's attributes, the class-level       *)
(* StdString objects and the assigned value, and gives the attributes and  *)
(* strings it leaves, with the exception it raised ("" when none).         *)
(* buf tells what became of the buffer behind the column: "same" when it   *)
(* was written in place, "rebound" when a new buffer took its place and    *)
(* the branch was given its address, "unbound" when a new buffer took its  *)
(* place and the branch was not told.                                      *)
Outcome(attrs, strs, exc, msg) ==
  [attrs |-> attrs, cstr |-> strs, exc |-> exc, msg |-> msg, buf |-> "same"]

\* self._tree.SetBranchAddress(name, self._x) after self._x = <new array>
Rebound(o) == [o EXCEPT !.buf = "rebound"]

\* self._x._vector = value: the wrapper holds another vector from now on
Unbound(o) == [o EXCEPT !.buf = "unbound"]

\* SetterString without the test of the type
SetterString_NoGate(c, f, attrs, strs, x) ==
  LET row == Col(c, f) IN
  Outcome(attrs, [strs EXCEPT ![attrs[row.sattr].ref] = x.s], "", NoMsg)

\* string setters: isinstance test, then self._x.string.assign(value)
SetterString(c, f, attrs, strs, x) ==
  LET row == Col(c, f) IN
  IF ~(x.t = "str" \/ x.t = "ROOT.std.string")
  THEN Outcome(attrs, strs, "ValueError", IncorrectType(row.msg, x))
  ELSE Outcome(attrs, [strs EXCEPT ![attrs[row.sattr].ref] = x.s], "", NoMsg)

\* scalar setters: self._x[0] = value
SetterElem0(c, f, attrs, strs, x) ==
  LET row == Col(c, f)
      r == NpSetItem0(x, attrs[row.sattr].vt)
  IN  IF r.exc # ""
      THEN Outcome(attrs, strs, r.exc, NoMsg)
      ELSE Outcome([attrs EXCEPT ![row.sattr].v[1] = r.e], strs, "", NoMsg)

\* SetterReplace without the astype: the new array has the dtype numpy
\* infers from the value
SetterReplace_NoAstype(c, f, attrs, strs, x) ==
  LET row == Col(c, f)
      r == NpArrayAstype(x, IF x.t = "numpy.ndarray" THEN x.vt ELSE "int64")
  IN  IF r.exc # ""
      THEN Outcome(attrs, strs, r.exc, NoMsg)
      ELSE Rebound(Outcome([attrs EXCEPT ![row.sattr] = r.arr], strs, "", NoMsg))

\* fixed-size setters: self._x = np.array(value).astype(dt), then SetBranchAddress
SetterReplace(c, f, attrs, strs, x) ==
  LET row == Col(c, f)
      r == NpArrayAstype(x, row.astype)
  IN  IF r.exc # ""
      THEN Outcome(attrs, strs, r.exc, NoMsg)
      ELSE Rebound(Outcome([attrs EXCEPT ![row.sattr] = r.arr], strs, "", NoMsg))

\* the values the first branch of a vector setter takes
GateAccepts(row, x) ==
  \/ x.t = "list"
  \/ row.gate /\ (x.t = "numpy.ndarray" \/ x.t = "StdVectorList")

\* The wrapper of a column holds a vector object: its own (ref "") or, after
\* "self._f._vector = value", the caller's (ref the name of that object).
\* What is written in place into the vector the wrapper of a holds is what
\* every wrapper holding the same object holds.
WriteThrough(attrs, a) ==
  IF attrs[a].ref = "" THEN attrs
  ELSE [b \in DOMAIN attrs |->
          IF attrs[b].t = "StdVectorList" /\ attrs[b].ref = attrs[a].ref
          THEN [attrs[b] EXCEPT !.v = attrs[a].v]
          ELSE attrs[b]]

\* value is a wrapper of the vector object the column col holds: the one the
\* getter of the column returned, or a wrapper of the caller's vector the
\* column was given
SameVector(col, x) ==
  \/ x.ref = "self"
  \/ x.t = "StdVectorList" /\ x.ref # "" /\ x.ref = col.ref

\* self._f._vector = value: the wrapper holds the caller's vector object
TakeVector(col, x) == [col EXCEPT !.v = x.v, !.ref = x.ref]

\* vector setters: clear and refill, or take the ROOT vector, or raise
SetterVec(c, f, attrs, strs, x) ==
  LET row == Col(c, f)
      col == attrs[row.sattr]
  IN  IF GateAccepts(row, x)
      THEN LET cleared == Clear(col)
               src == IF SameVector(col, x) THEN cleared.v ELSE x.v
               r == IAdd(cleared, src)
           IN  Outcome(WriteThrough([attrs EXCEPT ![row.sattr] = r.col], row.sattr),
                       strs, r.exc, NoMsg)
      ELSE IF x.t = "ROOT.vector" /\ x.vt = row.nat
      THEN Unbound(Outcome([attrs EXCEPT ![row.sattr] = TakeVector(col, x)],
                           strs, "", NoMsg))
      ELSE Outcome(attrs, strs, "ValueError", IncorrectType(row.msg, x))

\* set_vector_of_vectors(value, vec_type, variable, variable_name) of root_trees
set_vector_of_vectors(x, vec_type, col, name) ==
  IF x.t = "list" \/ x.t = "numpy.ndarray" \/ x.t = "StdVectorList"
  THEN LET cleared == Clear(col)
           src == IF SameVector(col, x) THEN cleared.v ELSE x.v
           r == IAdd(cleared, src)
       IN  [col |-> r.col, exc |-> r.exc, msg |-> NoMsg, buf |-> "same"]
  ELSE IF x.t = "ROOT.vector" /\ x.vt = vec_type
  THEN [col |-> TakeVector(col, x), exc |-> "", msg |-> NoMsg, buf |-> "unbound"]
  ELSE [col |-> col, exc |-> "ValueError", msg |-> IncorrectType(name, x), buf |-> "same"]

\* prim_injpoint_shc, prim_inj_dir_shc: set_vector_of_vectors(value, ...)
SetterSovov(c, f, attrs, strs, x) ==
  LET row == Col(c, f)
      r == set_vector_of_vectors(x, row.nat, attrs[row.sattr], row.msg)
  IN  [Outcome(WriteThrough([attrs EXCEPT ![row.sattr] = r.col], row.sattr),
               strs, r.exc, r.msg)
         EXCEPT !.buf = r.buf]

\* Setter with a check no setter has: a per-antenna column of an efield
\* record takes only a value as long as du_count says
Setter_Aligned(c, f, attrs, strs, x) ==
  IF /\ c = "RawEfieldTree"
     /\ Col(c, f).decl = "StdVectorList"
     /\ Len(x.v) # attrs["du_count"].v[1].n
  THEN Outcome(attrs, strs, "ValueError", NoMsg)
  ELSE CASE Col(c, f).setter = "string"  -> SetterString(c, f, attrs, strs, x)
         [] Col(c, f).setter = "elem0"   -> SetterElem0(c, f, attrs, strs, x)
         [] Col(c, f).setter = "replace" -> SetterReplace(c, f, attrs, strs, x)
         [] Col(c, f).setter = "vec"     -> SetterVec(c, f, attrs, strs, x)
         [] Col(c, f).setter = "sovov"   -> SetterSovov(c, f, attrs, strs, x)

Setter(c, f, attrs, strs, x) ==
  CASE Col(c, f).setter = "string"  -> SetterString(c, f, attrs, strs, x)
    [] Col(c, f).setter = "elem0"   -> SetterElem0(c, f, attrs, strs, x)
    [] Col(c, f).setter = "replace" -> SetterReplace(c, f, attrs, strs, x)
    [] Col(c, f).setter = "vec"     -> SetterVec(c, f, attrs, strs, x)
    [] Col(c, f).setter = "sovov"   -> SetterSovov(c, f, attrs, strs, x)

(***************************************************************************)
(* The getters: the value returned, or the exception raised.               *)
(***************************************************************************)
Got(exc, val) == [exc |-> exc, val |-> val]

\* the getter's conversion of a buffer: str(b), b[0], np.array(b), b
View(form, obj, strs) ==
  CASE form = "str"     -> Got("", PyStr(strs[obj.ref]))
    [] form = "elem0"   -> Got("", NpGetItem0(obj))
    [] form = "nparray" -> NpArray(obj)
    [] form = "wrapper" -> Got("", obj)

\* the getter of f: the attribute it names, converted
Getter(c, f, attrs, strs) ==
  LET row == Col(c, f) IN
  IF row.gattr \notin DOMAIN attrs THEN Got("AttributeError", PyNone)
  ELSE View(row.getter, attrs[row.gattr], strs)

(***************************************************************************)
(* Construction: the dataclass defaults.                                   *)
(***************************************************************************)
Attrs(c) == DOMAIN Columns(c) \cup InheritedAttrs

StringAttrs(c) == {a \in DOMAIN Columns(c) : Col(c, a).decl = "StdString"}

\* default of attribute a: default_factory builds a new object for each
\* record, a plain default is the one object made when the class was defined
Default(c, a) ==
  IF a \in InheritedAttrs THEN NpZeros(1, "uint32")
  ELSE LET row == Col(c, a) IN
    CASE row.decl = "StdString"     -> StdStringRef(a)
      [] row.decl = "ndarray"       -> NpZeros(row.len, row.vt)
      [] row.decl = "StdVectorList" -> PyWrapper(row.vt, <<>>)

\* a record: the column attributes, the two metadata fields _type and
\* _tree_name, and the names of the attributes added to it since
NewRecord(c) ==
  [live |-> TRUE, attrs |-> [a \in Attrs(c) |-> Default(c, a)],
   type |-> TypeTag(c).type, tree_name |-> TypeTag(c).tree_name, extra |-> {}]

NoRecord ==
  [live |-> FALSE, attrs |-> [a \in {} |-> PyNone],
   type |-> "", tree_name |-> "", extra |-> {}]

(***************************************************************************)
(* The values a behaviour assigns.                                         *)
(***************************************************************************)
Ramp(k) == [j \in 1..k |-> EN(j)]
Rev(k)  == [j \in 1..k |-> EN(k + 1 - j)]

NumLists == {Ramp(k) : k \in 0..MaxLen} \cup {Rev(k) : k \in 2..MaxLen}
              \cup {<<EN(Big)>>}
StrLists == {<<ES("a"), ES("b")>>, <<ES("b")>>}
NestedLists == {<<EV(<<1, 2>>), EV(<<3>>)>>, <<EV(<<3>>), EV(<<>>), EV(<<1, Big>>)>>}
\* lists whose refill stops part-way in a column of some type
MixedLists == {<<EN(1), ES("a")>>, <<ES("a"), EN(1)>>, <<EV(<<1>>), EN(1)>>}

VecTypes == {"float", "double", "int", "string", "vector<float>"}

Sample(vt) ==
  CASE vt = "string" -> <<ES("b"), ES("a")>>
    [] vt = "vector<float>" -> <<EV(<<2>>), EV(<<1, 2>>)>>
    [] OTHER -> <<EN(2), EN(1)>>

Lists    == {PyList(q) : q \in NumLists \cup StrLists \cup NestedLists \cup MixedLists}
Arrays   == {PyArray("float64", 1, Rev(2)),
             PyArray("float64", 2, <<EV(<<2, 1>>), EV(<<1, 2>>)>>)}
Wrappers == {PyWrapper(vt, Sample(vt)) : vt \in VecTypes}
Vectors  == {PyVector(vt, Sample(vt)) : vt \in VecTypes}
Scalars  == {PyInt(1), PyInt(Big), PyStr("a"), PyStr("7"), PyStdString("b")}
Others   == {PyDict, PyObject, PyNone}

\* the values offered to the setter of f on a record with attributes attrs
Inputs(c, f, attrs) ==
  LET row == Col(c, f) IN
  CASE row.setter = "string" ->
         Scalars \cup Others \cup {PyInt(7), PyStr(""), PyList(<<ES("a"), ES("b")>>),
                                  PyArray("float64", 1, Rev(2)),
                                  PyWrapper("string", Sample("string")),
                                  PyVector("string", Sample("string"))}
    [] row.setter \in {"vec", "sovov"} ->
         Lists \cup Arrays \cup Wrappers \cup Vectors \cup Scalars \cup Others
           \cup (IF row.getter = "wrapper" THEN {PySelf(attrs[row.sattr])} ELSE {})
    [] row.setter = "elem0" ->
         {PyInt(1), PyInt(Big), PyStr("a"), PyStr("7"), PyDict, PyObject, PyNone,
          PyArray("float64", 1, Rev(2)), PyArray("float64", 1, <<EN(5)>>),
          PyArray("float64", 2, <<EV(<<5>>)>>), PyArrayNaN("float64"),
          PyArray("float64", 1, <<ENaN>>),
          PyScalar("float32", 1), PyScalarNaN("float64"),
          PyWrapper("float", Sample("float")), PyVector("float", <<EN(1)>>)}
           \cup {PyList(q) : q \in {l \in NumLists : Len(l) >= 1}}
    [] row.setter = "replace" ->
         {PyInt(1), PyInt(Big), PyStr("a"), PyStr("7"), PyDict, PyObject, PyNone,
          PyScalar("float32", 1), PyScalarNaN("float64"),
          PyArray("float64", 1, <<ENaN, EN(1)>>)}
           \cup Arrays \cup Wrappers \cup Vectors
           \cup {PyList(q) : q \in NumLists \cup StrLists \cup {<<EN(1), ES("a")>>}}
           \cup {PyList(<<EV(<<1, 2>>), EV(<<3, 4>>)>>), PyList(<<EV(<<1, 2>>), EV(<<3>>)>>)}

\* the values offered to a second record of the class
Probes ==
  {PyInt(1), PyStr("a"), PyDict, PyList(Ramp(2)), PyList(<<ES("a"), ES("b")>>),
   PyList(<<EV(<<1, 2>>), EV(<<3>>)>>)}

\* record A is assigned every value, any other record the probes
Offered(i, c, f, attrs) ==
  IF i = "A" THEN Inputs(c, f, attrs) ELSE Inputs(c, f, attrs) \cap Probes

(***************************************************************************)
(* The state machine.                                                      *)
(*   cls, fld  the class of the records and the property assigned          *)
(*   recs      the records                                                 *)
(*   cstr      text of the class-level StdString objects of cls            *)
(*   last      the last operation, its argument, the exception raised, the *)
(*             size of the column before it, and the attribute name of a   *)
(*             getattr or setattr                                          *)
(*   tree      per record, the TTree behind it: whether its branches are   *)
(*             made (bound), whether the branch of fld is still bound to a *)
(*             buffer the record has let go (stale), what that buffer      *)
(*             holds (old), and the rows filled                            *)
(***************************************************************************)
Op(op, i, x, exc, msg, pre) ==
  [op |-> op, inst |-> i, arg |-> x, exc |-> exc, msg |-> msg, pre |-> pre,
   name |-> ""]

\* how much the column written by the setter of f holds: the number of
\* elements of a vector or an array, 1 for a text that is not empty
Size(c, f, attrs, strs) ==
  LET obj == attrs[Col(c, f).sattr] IN
  IF obj.t = "StdString" THEN (IF strs[obj.ref] = "" THEN 0 ELSE 1) ELSE Len(obj.v)

\* what the buffer behind the column of f holds
Held(c, f, attrs, strs) ==
  LET obj == attrs[Col(c, f).sattr] IN
  IF obj.t = "StdString" THEN [n |-> 0, s |-> strs[obj.ref], v |-> <<>>]
  ELSE Content(obj)

NoContent == [n |-> 0, s |-> "", v |-> <<>>]

\* the tree of a record just constructed: no branch, no row
NewTree == [bound |-> FALSE, stale |-> FALSE, old |-> NoContent, rows |-> <<>>]

\* the branch of the column after a setter call: a branch bound to the
\* buffer the setter replaced without SetBranchAddress stays on that buffer
Rebind(t, buf, before) ==
  CASE ~t.bound -> t
    [] buf = "rebound" -> [t EXCEPT !.stale = FALSE, !.old = NoContent]
    [] buf = "unbound" /\ ~t.stale -> [t EXCEPT !.stale = TRUE, !.old = before]
    [] OTHER -> t

Init ==
  /\ cls \in Classes
  /\ fld \in DOMAIN Columns(cls)
  /\ recs = [i \in Insts |-> NoRecord]
  /\ cstr = [a \in StringAttrs(cls) |-> ""]
  /\ last = Op("none", "A", PyNone, "", NoMsg, 0)
  /\ tree = [i \in Insts |-> NewTree]

\* rec = Class()
New(i) ==
  /\ ~recs[i].live
  /\ recs' = [recs EXCEPT ![i] = NewRecord(cls)]
  /\ tree' = [tree EXCEPT ![i] = NewTree]
  /\ last' = Op("new", i, PyNone, "", NoMsg, 0)
  /\ UNCHANGED <<cls, fld, cstr>>

\* rec.fld = x
Assign(i, x) ==
  /\ LET r == Setter(cls, fld, recs[i].attrs, cstr, x) IN
       /\ recs' = [recs EXCEPT ![i].attrs = r.attrs]
       /\ cstr' = r.cstr
       /\ tree' = [tree EXCEPT
                     ![i] = Rebind(@, r.buf, Held(cls, fld, recs[i].attrs, cstr))]
       /\ last' = Op("set", i, x, r.exc, r.msg, Size(cls, fld, recs[i].attrs, cstr))
  /\ UNCHANGED <<cls, fld>>

SetString(i) ==
  /\ recs[i].live
  /\ Col(cls, fld).setter = "string"
  /\ \E x \in Offered(i, cls, fld, recs[i].attrs) : Assign(i, x)

SetElem0(i) ==
  /\ recs[i].live
  /\ Col(cls, fld).setter = "elem0"
  /\ \E x \in Offered(i, cls, fld, recs[i].attrs) : Assign(i, x)

SetReplace(i) ==
  /\ recs[i].live
  /\ Col(cls, fld).setter = "replace"
  /\ \E x \in Offered(i, cls, fld, recs[i].attrs) : Assign(i, x)

SetVec(i) ==
  /\ recs[i].live
  /\ Col(cls, fld).setter = "vec"
  /\ \E x \in Offered(i, cls, fld, recs[i].attrs) : Assign(i, x)

SetSovov(i) ==
  /\ recs[i].live
  /\ Col(cls, fld).setter = "sovov"
  /\ \E x \in Offered(i, cls, fld, recs[i].attrs) : Assign(i, x)


Next ==
  \E i \in Insts :
    \/ New(i)
    \/ SetString(i)
    \/ SetElem0(i)
    \/ SetReplace(i)
    \/ SetVec(i)
    \/ SetSovov(i)

Spec == Init /\ [][Next]_vars


(***************************************************************************)
(* What the claims speak of.                                               *)
(***************************************************************************)
\* the record the last operation acted on
Target == recs[last.inst]

\* what the column of f holds
Stored(c, f, attrs, strs) ==
  LET obj == attrs[Col(c, f).sattr] IN
  IF obj.t = "StdString" THEN [n |-> 0, s |-> strs[obj.ref], v |-> <<>>]
  ELSE Content(obj)

\* what the column of f holds once x is assigned to it and nothing else is in it
StoredForm(c, f, x) ==
  LET row == Col(c, f) IN
  CASE row.setter = "string"  -> [n |-> 0, s |-> x.s, v |-> <<>>]
    [] row.setter = "elem0"   -> [n |-> 0, s |-> "", v |-> <<NpSetItem0(x, row.vt).e>>]
    [] row.setter = "replace" -> Content(NpArrayAstype(x, row.astype).arr)
    [] OTHER -> [n |-> 0, s |-> "", v |-> [k \in 1..Len(x.v) |-> PushConv(row.vt, x.v[k])]]

\* the column of a holds its default: 0, the empty text, no element
IsDefault(c, a, attrs, strs) ==
  LET row == Col(c, a) IN
  CASE row.decl = "StdString"     -> strs[attrs[a].ref] = ""
    [] row.decl = "ndarray"       -> attrs[a] = NpZeros(row.len, row.vt)
    [] row.decl = "StdVectorList" -> attrs[a].v = <<>>

\* every number of x is one the dtype or vector type vt holds as it is
FitsWidth(vt, x) ==
  /\ Cast(IF vt = "float" THEN "float32" ELSE vt, x.n) = x.n
  /\ \A k \in 1..Len(x.v) : PushConv(IF vt = "float32" THEN "float" ELSE vt, x.v[k]) = x.v[k]

\* x is a value of the kind of column f: a text for a string column, a number
\* for a scalar, N numbers for a fixed-size column, a sequence in any of the
\* four shapes for a variable-length column; an object of its own, within the
\* declared width
ValidValue(c, f, x) ==
  LET row == Col(c, f) IN
  /\ x.ref # "self"
  /\ CASE row.decl = "StdString" -> x.t \in {"str", "ROOT.std.string"}
       [] row.decl = "ndarray" /\ row.len = 1 -> x.t = "int" /\ FitsWidth(row.vt, x)
       [] row.decl = "ndarray" /\ row.len > 1 ->
            /\ x.t \in {"list", "numpy.ndarray"}
            /\ x.d = 1 /\ Len(x.v) = row.len /\ AllNum(x.v)
            /\ FitsWidth(row.vt, x)
       [] row.decl = "StdVectorList" ->
            /\ x.t \in {"list", "numpy.ndarray", "StdVectorList", "ROOT.vector"}
            /\ FitsWidth(row.vt, x)

\* the setter of f tests the type of the value itself
HasGate(c, f) == Col(c, f).setter \in {"string", "vec", "sovov"}

\* the last operation raised the setter's own error, "Incorrect type for ..."
InvalidTypeRaised == last.exc = "ValueError" /\ last.msg # NoMsg

\* a mapping, a nested record
Unsupported == {PyDict, PyObject}

\* operation l was refused by the setter's own test of the type:
\* ValueError("Incorrect type for ...") with the type of the value in it
RejectsType(l) == l.exc = "ValueError" /\ l.msg # NoMsg /\ l.msg.type = l.arg.t

\* the message names field f: by its name, or by the name of its attribute
NamesField(name, f) == name = f \/ name = "_" \o f

(***************************************************************************)
(* C1.  Round trip: once a setter has accepted a valid value x, the getter  *)
(* of the same field returns x, element for element.                       *)
(***************************************************************************)
C1_RoundTrip ==
  (last.op = "set" /\ last.exc = "" /\ ValidValue(cls, fld, last.arg)) =>
    LET g == Getter(cls, fld, Target.attrs, cstr) IN
      g.exc = "" /\ Content(g.val) = Content(last.arg)

\* the getters that convert a column of sequences with np.array
ArrayOfRows(c, f) == Col(c, f).decl = "StdVectorList" /\ Col(c, f).getter = "nparray"

\* the round trip of every field but event_date, unix_date and the two
\* whose getter converts a column of sequences
C1_RoundTripElsewhere ==
  (fld \notin {"event_date", "unix_date"} /\ ~ArrayOfRows(cls, fld)) => C1_RoundTrip

(***************************************************************************)
(* C2.  Replace, not append: after a successful assignment of b the column *)
(* holds b's contents alone, whatever it held before and whatever shape b  *)
(* has: a list, an array, a column wrapper (the column's own included), a  *)
(* native vector.                                                          *)
(***************************************************************************)
C2_ReplaceNotAppend ==
  (last.op = "set" /\ last.exc = "") =>
    Stored(cls, fld, Target.attrs, cstr) = StoredForm(cls, fld, last.arg)

\* the same for every value that is not the column's own wrapper
C2_ReplaceByOtherObject ==
  (last.op = "set" /\ last.exc = "" /\ last.arg.ref # "self") =>
    Stored(cls, fld, Target.attrs, cstr) = StoredForm(cls, fld, last.arg)

\* a column that held elements was assigned a list of other length and
\* holds the list
C2_ListReplaces ==
  /\ last.op = "set" /\ last.exc = ""
  /\ Col(cls, fld).setter = "vec"
  /\ last.arg.t = "list"
  /\ last.pre > 0
  /\ Len(last.arg.v) > 0
  /\ Len(last.arg.v) # last.pre
  /\ Target.attrs[fld].v = last.arg.v

(***************************************************************************)
(* C3.  Type rejection: assigning a mapping or a nested record to a column  *)
(* raises the invalid-type error, the setter's ValueError "Incorrect type  *)
(* for ..." with the type of the value in it, and leaves every column of   *)
(* every record as it was.                                                 *)
(***************************************************************************)
C3_TypeRejection ==
  [][(last'.op = "set" /\ last'.arg \in Unsupported) =>
       /\ RejectsType(last')
       /\ recs' = recs
       /\ cstr' = cstr]_vars

\* the same on the columns whose setter tests the type
C3_GatedTypeRejection ==
  [][(last'.op = "set" /\ last'.arg \in Unsupported /\ HasGate(cls, fld)) =>
       /\ RejectsType(last')
       /\ recs' = recs
       /\ cstr' = cstr]_vars

\* on every column the assignment raises and nothing is stored
C3_NothingStored ==
  [][(last'.op = "set" /\ last'.arg \in Unsupported) =>
       /\ last'.exc # ""
       /\ recs' = recs
       /\ cstr' = cstr]_vars

(***************************************************************************)
(* C4.  All or nothing: an assignment that raises leaves every column as   *)
(* it was.                                                                 *)
(***************************************************************************)
C4_AllOrNothing ==
  [][(last'.op = "set" /\ last'.exc # "") => (recs' = recs /\ cstr' = cstr)]_vars

(***************************************************************************)
(* C5.  A record just constructed has every column at its default.         *)
(***************************************************************************)
C5_FreshDefaults ==
  last.op = "new" =>
    \A a \in DOMAIN Columns(cls) : IsDefault(cls, a, Target.attrs, cstr)

(***************************************************************************)
(* C6.  Exclusive ownership: an assignment to a field of one record        *)
(* changes what no field of another record holds.                          *)
(***************************************************************************)
C6_ExclusiveOwnership ==
  [][\A i \in Insts :
       (last'.op = "set" /\ last'.inst # i /\ recs[i].live) =>
         \A a \in DOMAIN Columns(cls) :
           Stored(cls, a, recs'[i].attrs, cstr') = Stored(cls, a, recs[i].attrs, cstr)]_vars

(***************************************************************************)
(* C7.  Every setter is a validation gate: a value whose type is outside   *)
(* the types of the column's kind fails with the invalid-type error; it is *)
(* neither stored nor refused for another reason.                          *)
(***************************************************************************)
C7_ValidationGate ==
  LET kind == Col(cls, fld).decl
      \* the types the contract accepts for a column of this kind
      accepted ==
        CASE kind = "StdString" -> {"str", "ROOT.std.string"}
          [] kind = "ndarray" -> {"int", "list", "numpy.ndarray"}
          [] kind = "StdVectorList" -> {"list", "numpy.ndarray", "StdVectorList", "ROOT.vector"}
  IN  (last.op = "set" /\ last.arg.t \notin accepted) => RejectsType(last)

(***************************************************************************)
(* C8.  An invalid-type error names the field assigned and the type of the *)
(* value refused.                                                          *)
(***************************************************************************)
C8_ErrorNamesField ==
  (last.op = "set" /\ InvalidTypeRaised) =>
    (NamesField(last.msg.name, fld) /\ last.msg.type = last.arg.t)

(***************************************************************************)
(* C9.  Uniform shapes: no variable-length column refuses, as of invalid   *)
(* type, a list, an array, a column wrapper or the ROOT vector of its own  *)
(* type.                                                                   *)
(***************************************************************************)
C9_UniformShapes ==
  (/\ last.op = "set"
   /\ Col(cls, fld).decl = "StdVectorList"
   /\ \/ last.arg.t \in {"list", "numpy.ndarray", "StdVectorList"}
      \/ last.arg.t = "ROOT.vector" /\ last.arg.vt = Col(cls, fld).vt)
    => ~InvalidTypeRaised

(***************************************************************************)
(* C10. A fixed-size column of N elements has N elements in every state.   *)
(***************************************************************************)
C10_FixedLength ==
  \A i \in Insts : recs[i].live =>
    \A a \in DOMAIN Columns(cls) :
      (Col(cls, a).decl = "ndarray" /\ Col(cls, a).len > 1) =>
        (recs[i].attrs[a].d = 1 /\ Len(recs[i].attrs[a].v) = Col(cls, a).len)


(***************************************************************************)
(* The tree behind a record: branches, binding and filling.  The branches  *)
(* are made and the rows filled by MotherEventTree; the setters of this    *)
(* file re-bind a branch with SetBranchAddress.  A behaviour of SpecTree   *)
(* constructs one record, makes its branches, assigns to one of its        *)
(* properties and fills rows.                                              *)
(***************************************************************************)
\* most rows filled
MaxRows == 2

\* the values assigned while rows are filled
TreeInputs(c, f) ==
  LET row == Col(c, f) IN
  CASE row.setter = "string" -> {PyStr("a"), PyStr("b"), PyDict}
    [] row.setter = "elem0" -> {PyInt(1), PyInt(Big), PyDict}
    [] row.setter = "replace" ->
         {PyInt(1), PyList(Ramp(2)), PyList(Ramp(3)), PyArray("float64", 1, Rev(3)), PyDict}
    [] OTHER ->
         {PyList(Sample(row.vt)), PyList(<<>>), PyWrapper(row.vt, Sample(row.vt)),
          PyVector(row.vt, Sample(row.vt)), PyVector(row.vt, <<>>), PyDict}
           \cup (IF row.vt = "vector<float>"
                 THEN {PyList(<<EV(<<2, 1>>), EV(<<1, 2>>)>>)} ELSE {})

\* create_branches: every branch is given the address of the buffer the
\* record holds
Bind(i) ==
  /\ recs[i].live
  /\ ~tree[i].bound
  /\ tree' = [tree EXCEPT ![i] = [@ EXCEPT !.bound = TRUE]]
  /\ last' = Op("bind", i, PyNone, "", NoMsg, 0)
  /\ UNCHANGED <<cls, fld, recs, cstr>>

\* rec.fld = x, x one of TreeInputs
SetColumn(i) ==
  /\ recs[i].live
  /\ \E x \in TreeInputs(cls, fld) : Assign(i, x)

\* what the branch of f reads at Fill: the buffer it is bound to, which is
\* the record's own unless the record has let it go; as the getter shows it
\* where the getter can show it
Branch(c, f, attrs, strs, t) ==
  LET obj == attrs[Col(c, f).sattr]
      buf == IF t.stale THEN [obj EXCEPT !.n = t.old.n, !.v = t.old.v] ELSE obj
      w == View(Col(c, f).getter, buf, strs)
  IN  IF w.exc = "" THEN Content(w.val) ELSE Content(buf)

\* rec.fill(): TTree.Fill copies what every branch reads into a new row
Fill(i) ==
  /\ recs[i].live
  /\ tree[i].bound
  /\ Len(tree[i].rows) < MaxRows
  /\ tree' = [tree EXCEPT ![i].rows =
                Append(@, Branch(cls, fld, recs[i].attrs, cstr, tree[i]))]
  /\ last' = Op("fill", i, PyNone, "", NoMsg, 0)
  /\ UNCHANGED <<cls, fld, recs, cstr>>

NextTree ==
  \/ New("A")
  \/ Bind("A")
  \/ SetColumn("A")
  \/ Fill("A")

SpecTree == Init /\ [][NextTree]_vars

(***************************************************************************)
(* C11. The branch of every column is bound to the buffer the record       *)
(* holds, in every state: after a fixed-size column took a new array and   *)
(* after a variable-length column took a ROOT vector alike.                *)
(***************************************************************************)
C11_BoundToHeld ==
  \A i \in Insts : (recs[i].live /\ tree[i].bound) => ~tree[i].stale

\* the part of C11 on scalar and fixed-size columns
C11_ArraysBoundToHeld ==
  Col(cls, fld).decl = "ndarray" => C11_BoundToHeld

(***************************************************************************)
(* C12. Fill snapshots the columns: the row a Fill writes holds the value  *)
(* the getter of the field returns at that moment, and no other step       *)
(* changes the rows already written.                                       *)
(***************************************************************************)
C12_FillSnapshots ==
  [][\A i \in Insts :
       IF last'.op = "fill" /\ last'.inst = i
       THEN LET g == Getter(cls, fld, recs[i].attrs, cstr) IN
              /\ g.exc = ""
              /\ tree'[i].rows = Append(tree[i].rows, Content(g.val))
       ELSE tree'[i].rows = tree[i].rows]_vars

\* rows once written stay as they are
C12_RowsKept ==
  [][\A i \in Insts : \A k \in 1..Len(tree[i].rows) :
       /\ k <= Len(tree'[i].rows)
       /\ tree'[i].rows[k] = tree[i].rows[k]]_vars

\* the row holds what the getter returns, on every field whose branch is
\* bound to the record's own buffer and whose getter reads that buffer
\* without raising
C12_FillSnapshotsBound ==
  [][(/\ last'.op = "fill"
      /\ ~tree[last'.inst].stale
      /\ Col(cls, fld).gattr = Col(cls, fld).sattr
      /\ Getter(cls, fld, recs[last'.inst].attrs, cstr).exc = "") =>
       LET i == last'.inst
           g == Getter(cls, fld, recs[i].attrs, cstr)
       IN  tree'[i].rows = Append(tree[i].rows, Content(g.val))]_vars


(***************************************************************************)
(* C13. The element type of a scalar or fixed-size column is the declared  *)
(* one in every state, whatever was assigned.                              *)
(***************************************************************************)
C13_DeclaredWidth ==
  \A i \in Insts : recs[i].live =>
    \A a \in DOMAIN Columns(cls) :
      Col(cls, a).decl = "ndarray" =>
        /\ recs[i].attrs[a].t = "numpy.ndarray"
        /\ recs[i].attrs[a].vt = Col(cls, a).vt

\* a 32-bit column took a 64-bit array, and is 32-bit still
C13_Witness ==
  /\ last.op = "set" /\ last.exc = ""
  /\ Col(cls, fld).setter = "replace"
  /\ Col(cls, fld).vt = "float32"
  /\ last.arg.t = "numpy.ndarray" /\ last.arg.vt = "float64"
  /\ Target.attrs[fld].vt = "float32"
  /\ Len(Target.attrs[fld].v) = Len(last.arg.v)


(***************************************************************************)
(* Attribute access by name.  The classes are plain dataclasses: not       *)
(* frozen, without __slots__, __setattr__ or __getattr__.  A behaviour of  *)
(* SpecAttr constructs one record and reads and writes attributes of it by *)
(* name.                                                                   *)
(***************************************************************************)
\* the names read and written: the two metadata fields, a name of no field
AttrNames == {"_type", "_tree_name", "no_such_field"}

\* the names the class declares: the fields, their properties, and the
\* property trace of RawEfieldTree, which has no field of its own
Declared(c) == {"_type", "_tree_name"} \cup {"_" \o a : a \in DOMAIN Columns(c)}
                 \cup DOMAIN Columns(c)
                 \cup (IF c = "RawEfieldTree" THEN {"trace"} ELSE {})

AttrOp(op, i, name, x, exc) == [Op(op, i, x, exc, NoMsg, 0) EXCEPT !.name = name]

\* getattr(rec, name): the value, or AttributeError when the record has no
\* attribute of that name
GetAttr(i) ==
  /\ recs[i].live
  /\ \E name \in AttrNames :
       last' = CASE name = "_type" -> AttrOp("getattr", i, name, PyStr(recs[i].type), "")
                 [] name = "_tree_name" ->
                      AttrOp("getattr", i, name, PyStr(recs[i].tree_name), "")
                 [] name \in recs[i].extra -> AttrOp("getattr", i, name, PyStr("x"), "")
                 [] OTHER -> AttrOp("getattr", i, name, PyNone, "AttributeError")
  /\ UNCHANGED <<cls, fld, recs, cstr, tree>>

\* setattr(rec, name, "x"): object.__setattr__ stores the value in the
\* record, under a new name as under a declared one
SetAttr(i) ==
  /\ recs[i].live
  /\ \E name \in AttrNames :
       /\ recs' = CASE name = "_type" -> [recs EXCEPT ![i].type = "x"]
                    [] name = "_tree_name" -> [recs EXCEPT ![i].tree_name = "x"]
                    [] OTHER -> [recs EXCEPT ![i].extra = @ \cup {name}]
       /\ last' = AttrOp("setattr", i, name, PyStr("x"), "")
  /\ UNCHANGED <<cls, fld, cstr, tree>>

NextAttr ==
  \/ New("A")
  \/ SetColumn("A")
  \/ GetAttr("A")
  \/ SetAttr("A")

SpecAttr == Init /\ [][NextAttr]_vars

(***************************************************************************)
(* C14. The type tag and the storage name of a record are those of its     *)
(* class in every state: no operation changes them.                        *)
(***************************************************************************)
C14_TagsImmutable ==
  \A i \in Insts : recs[i].live =>
    /\ recs[i].type = TypeTag(cls).type
    /\ recs[i].tree_name = TypeTag(cls).tree_name

\* the part of C14 on assignments through the properties
C14_SettersKeepTags ==
  [][\A i \in Insts :
       (last'.op = "set" /\ recs[i].live) =>
         (recs'[i].type = recs[i].type /\ recs'[i].tree_name = recs[i].tree_name)]_vars

(***************************************************************************)
(* C15. A record just constructed carries the identifiers of its schema:   *)
(* rawshower / trawshower, rawefield / trawefield, eventshowerzhaires /    *)
(* teventshowerzhaires; and the identifiers of two schemas differ.         *)
(***************************************************************************)
C15_SchemaIdentifiers ==
  /\ last.op = "new" =>
       /\ cls = "RawShowerTree" =>
            (Target.type = "rawshower" /\ Target.tree_name = "trawshower")
       /\ cls = "RawEfieldTree" =>
            (Target.type = "rawefield" /\ Target.tree_name = "trawefield")
       /\ cls = "RawZHAireSTree" =>
            (Target.type = "eventshowerzhaires"
               /\ Target.tree_name = "teventshowerzhaires")
  /\ \A c, d \in Classes :
       c # d => (TypeTag(c).type # TypeTag(d).type
                   /\ TypeTag(c).tree_name # TypeTag(d).tree_name)

\* a ZHAireS record was constructed
C15_Witness ==
  /\ last.op = "new"
  /\ cls = "RawZHAireSTree"
  /\ Target.live
  /\ Target.type = "eventshowerzhaires"

(***************************************************************************)
(* C16. Reading or writing a name the schema does not have raises the      *)
(* unknown-field error and leaves the record as it was.                    *)
(***************************************************************************)
C16_UnknownField ==
  [][(last'.op \in {"getattr", "setattr"} /\ last'.name \notin Declared(cls)) =>
       (last'.exc = "AttributeError" /\ recs' = recs)]_vars

\* the part of C16 on reads of a record nobody wrote an unknown name to
C16_UnknownRead ==
  [][(/\ last'.op = "getattr"
      /\ last'.name \notin Declared(cls)
      /\ recs[last'.inst].extra = {}) =>
       (last'.exc = "AttributeError" /\ recs' = recs)]_vars


(***************************************************************************)
(* Mutation of a column through the value its getter returns.  The getter  *)
(* of most variable-length columns returns the StdVectorList itself, so    *)
(* rec.f.append(e), rec.f.clear() and rec.f += q act on the column.  A      *)
(* behaviour of SpecAppend constructs one record and assigns to, clears    *)
(* and appends to one of its properties.                                   *)
(***************************************************************************)
ReturnsColumn(c, f) == Col(c, f).getter = "wrapper"

\* the elements appended
Elements == {EN(1), EN(2), ES("a"), ES("b"), EV(<<1>>), EV(<<2, 3>>)}

\* the lists added in place
Addends == {<<EN(1)>>, <<ES("a")>>, <<ES("b"), ES("a")>>, <<EV(<<2, 3>>)>>}

\* an element handed to append
PyElem(e) == PyVal("element", "", 0, 0, "", <<e>>, "")

\* the column of f with another object in place of the one it is kept in
WithColumn(c, f, attrs, col) == [attrs EXCEPT ![Col(c, f).sattr] = col]

\* rec.f.append(e): the getter, then append on what it returned
AppendTo(i) ==
  /\ recs[i].live
  /\ Col(cls, fld).decl = "StdVectorList"
  /\ Len(recs[i].attrs[Col(cls, fld).sattr].v) < MaxLen
  /\ \E e \in Elements :
       LET row == Col(cls, fld)
           col == recs[i].attrs[row.sattr]
           pre == Size(cls, fld, recs[i].attrs, cstr)
           got == Getter(cls, fld, recs[i].attrs, cstr)
       IN  IF got.exc # ""
           THEN \* the getter raises before append is looked up
                /\ recs' = recs
                /\ last' = Op("append", i, PyElem(e), got.exc, NoMsg, pre)
           ELSE IF got.val.t = "numpy.ndarray"
           THEN \* np.array(self._f) has no append
                /\ recs' = recs
                /\ last' = Op("append", i, PyElem(e), "AttributeError", NoMsg, pre)
           ELSE IF ~PushOK(col.vt, e)
           THEN /\ recs' = recs
                /\ last' = Op("append", i, PyElem(e), "cppyy.TypeError", NoMsg, pre)
           ELSE /\ recs' = IF ReturnsColumn(cls, fld)
                           THEN [recs EXCEPT ![i].attrs =
                                   WithColumn(cls, fld, @, Append_(col, e))]
                           ELSE recs
                /\ last' = Op("append", i, PyElem(e), "", NoMsg, pre)
  /\ UNCHANGED <<cls, fld, cstr, tree>>

\* rec.f.clear()
ClearCol(i) ==
  /\ recs[i].live
  /\ Col(cls, fld).decl = "StdVectorList"
  /\ LET row == Col(cls, fld)
         col == recs[i].attrs[row.sattr]
         pre == Size(cls, fld, recs[i].attrs, cstr)
         got == Getter(cls, fld, recs[i].attrs, cstr)
     IN  IF got.exc # ""
         THEN /\ recs' = recs
              /\ last' = Op("clear", i, PyNone, got.exc, NoMsg, pre)
         ELSE IF got.val.t = "numpy.ndarray"
         THEN /\ recs' = recs
              /\ last' = Op("clear", i, PyNone, "AttributeError", NoMsg, pre)
         ELSE /\ recs' = IF ReturnsColumn(cls, fld)
                         THEN [recs EXCEPT ![i].attrs =
                                 WithColumn(cls, fld, @, Clear(col))]
                         ELSE recs
              /\ last' = Op("clear", i, PyNone, "", NoMsg, pre)
  /\ UNCHANGED <<cls, fld, cstr, tree>>

\* rec.f += q: the getter, __iadd__ on the wrapper it returned, and the
\* setter called with the wrapper __iadd__ returned
AugAssign(i) ==
  /\ recs[i].live
  /\ Col(cls, fld).decl = "StdVectorList"
  /\ Col(cls, fld).getter = "wrapper"
  /\ \E q \in Addends :
       /\ Len(recs[i].attrs[Col(cls, fld).sattr].v) + Len(q) <= MaxLen
       /\ LET row == Col(cls, fld)
              col == recs[i].attrs[row.sattr]
              pre == Size(cls, fld, recs[i].attrs, cstr)
              added == IAdd(col, q)
              mid == WithColumn(cls, fld, recs[i].attrs, added.col)
              r == Setter(cls, fld, mid, cstr, PySelf(added.col))
          IN  IF added.exc # ""
              THEN /\ recs' = [recs EXCEPT ![i].attrs = mid]
                   /\ last' = Op("iadd", i, PyList(q), added.exc, NoMsg, pre)
              ELSE /\ recs' = [recs EXCEPT ![i].attrs = r.attrs]
                   /\ last' = Op("iadd", i, PyList(q), r.exc, r.msg, pre)
  /\ UNCHANGED <<cls, fld, cstr, tree>>

NextAppend ==
  \/ New("A")
  \/ SetColumn("A")
  \/ ClearCol("A")
  \/ AppendTo("A")
  \/ AugAssign("A")

SpecAppend == Init /\ [][NextAppend]_vars

(***************************************************************************)
(* C17. Append accumulates, Set resets: on a variable-length column clear  *)
(* empties it, append of an element the column takes succeeds and adds it  *)
(* at the end, keeping the elements there and their order; and a           *)
(* successful assignment leaves exactly the assigned value.                *)
(***************************************************************************)
\* what clear, append and assignment do to the column of fld of record i
Accumulates(i) ==
  LET row == Col(cls, fld)
      col == recs[i].attrs[row.sattr]
      col2 == recs'[i].attrs[row.sattr]
  IN  /\ last'.op = "clear" => (last'.exc = "" /\ col2.v = <<>>)
      /\ (last'.op = "append" /\ PushOK(row.vt, last'.arg.v[1])) =>
           /\ last'.exc = ""
           /\ col2.v = col.v \o <<PushConv(row.vt, last'.arg.v[1])>>
      /\ (last'.op = "set" /\ last'.exc = "") =>
           Content(col2) = StoredForm(cls, fld, last'.arg)

C17_AppendAccumulates ==
  [][\A i \in Insts :
       (/\ last'.inst = i
        /\ recs[i].live
        /\ Col(cls, fld).decl = "StdVectorList") => Accumulates(i)]_vars

\* the same on the columns whose getter returns the column
C17_WrapperAccumulates ==
  [][\A i \in Insts :
       (/\ last'.inst = i
        /\ recs[i].live
        /\ Col(cls, fld).decl = "StdVectorList"
        /\ Col(cls, fld).getter = "wrapper") => Accumulates(i)]_vars

\* a column that held one element was appended another and holds the two
C17_AppendedSecond ==
  /\ cls = "RawEfieldTree" /\ fld = "t_0"
  /\ last.op = "append" /\ last.exc = ""
  /\ last.pre = 1
  /\ Target.attrs["t_0"].v = <<EN(2), EN(1)>>

(***************************************************************************)
(* C18. A variable-length column of strings takes full assignment only: an *)
(* append-like mutation of it (append, +=) raises and leaves the column as *)
(* it was.                                                                 *)
(***************************************************************************)
C18_StringAppendRaises ==
  [][(/\ last'.op \in {"append", "iadd"}
      /\ Col(cls, fld).decl = "StdVectorList"
      /\ Col(cls, fld).vt = "string") =>
       (last'.exc # "" /\ recs' = recs)]_vars


(***************************************************************************)
(* C19. No flattening: after a list of sequences is assigned to a column   *)
(* of vector<float>, the column holds one inner sequence per sequence      *)
(* assigned, in the same outer order, each with its own length and its     *)
(* elements (as float32) in order; and reading the column gives these      *)
(* inner sequences.                                                        *)
(***************************************************************************)
\* x is a list of sequences
IsNestedList(x) ==
  /\ x.t = "list"
  /\ \A k \in 1..Len(x.v) : x.v[k].t = "seq"

\* the column of record i holds the sequences of the list assigned last
HoldsRows(i) ==
  LET held == recs[i].attrs[Col(cls, fld).sattr].v
      x == last.arg.v
  IN  /\ Len(held) = Len(x)
      /\ \A k \in 1..Len(x) :
           /\ held[k].t = "seq"
           /\ Len(held[k].v) = Len(x[k].v)
           /\ \A j \in 1..Len(x[k].v) : held[k].v[j] = F32(x[k].v[j])

\* record i was just assigned a list of sequences on a column of vector<float>
NestedAssigned(i) ==
  /\ recs[i].live
  /\ last.inst = i /\ last.op = "set" /\ last.exc = ""
  /\ Col(cls, fld).decl = "StdVectorList"
  /\ Col(cls, fld).vt = "vector<float>"
  /\ IsNestedList(last.arg)

C19_NoFlattening ==
  \A i \in Insts :
    NestedAssigned(i) =>
      LET g == Getter(cls, fld, recs[i].attrs, cstr)
      IN  /\ HoldsRows(i)
          /\ g.exc = ""
          /\ g.val.v = recs[i].attrs[Col(cls, fld).sattr].v

\* the columns are stored without flattening, and trace_x and the columns
\* read like it return what is stored
C19_StoredAndReadAsTraceX ==
  \A i \in Insts :
    NestedAssigned(i) =>
      LET g == Getter(cls, fld, recs[i].attrs, cstr)
      IN  /\ HoldsRows(i)
          /\ Col(cls, fld).getter = "wrapper" =>
               (g.exc = "" /\ g.val.v = recs[i].attrs[Col(cls, fld).sattr].v)

\* trace_x was assigned three sequences of lengths 1, 0 and 2 and its last
\* element reads as the two numbers of the last one
C19_TraceXRead ==
  /\ cls = "RawEfieldTree" /\ fld = "trace_x"
  /\ last.op = "set" /\ last.exc = "" /\ last.inst = "A"
  /\ last.arg = PyList(<<EV(<<3>>), EV(<<>>), EV(<<1, Big>>)>>)
  /\ Len(Getter(cls, fld, Target.attrs, cstr).val.v) = 3
  /\ Getter(cls, fld, Target.attrs, cstr).val.v[3].v = <<1, F32(Big)>>


(***************************************************************************)
(* The per-antenna columns of an efield record.  A behaviour of SpecAlign  *)
(* constructs one efield record and assigns to du_count and to the         *)
(* per-antenna columns in any order; fld is the property assigned last.    *)
(***************************************************************************)
\* the columns with one element per antenna
PerAntenna == <<"du_id", "du_name", "du_x", "trace_x", "t_0", "p2p">>

AlignFields == {PerAntenna[k] : k \in 1..Len(PerAntenna)} \cup {"du_count"}

\* the count assigned that no column's length equals
OddCount == Len(PerAntenna) + 1

\* a list of k elements of the vector type vt
ListOf(vt, k) ==
  PyList([j \in 1..k |->
            CASE vt = "string" -> ES("a")
              [] vt = "vector<float>" -> EV(<<j>>)
              [] OTHER -> EN(j)])

\* the values assigned to f: one antenna, or as many as the place of f in
\* PerAntenna; a count of one antenna or of more than any column holds
AlignInputs(f) ==
  IF f = "du_count" THEN {PyInt(1), PyInt(OddCount), PyDict}
  ELSE LET k == CHOOSE j \in 1..Len(PerAntenna) : PerAntenna[j] = f
       IN  {ListOf(Col("RawEfieldTree", f).vt, 1),
            ListOf(Col("RawEfieldTree", f).vt, k), PyDict}

InitAlign ==
  /\ cls = "RawEfieldTree"
  /\ fld = "du_count"
  /\ recs = [i \in Insts |-> NoRecord]
  /\ cstr = [a \in StringAttrs(cls) |-> ""]
  /\ last = Op("none", "A", PyNone, "", NoMsg, 0)
  /\ tree = [i \in Insts |-> NewTree]

\* rec.f = x for one of the columns
AssignColumn(i) ==
  /\ recs[i].live
  /\ \E f \in AlignFields : \E x \in AlignInputs(f) :
       LET r == Setter(cls, f, recs[i].attrs, cstr, x) IN
         /\ fld' = f
         /\ recs' = [recs EXCEPT ![i].attrs = r.attrs]
         /\ cstr' = r.cstr
         /\ last' = Op("set", i, x, r.exc, r.msg, Size(cls, f, recs[i].attrs, cstr))
  /\ UNCHANGED <<cls, tree>>

NextAlign ==
  \/ New("A")
  \/ AssignColumn("A")

SpecAlign == InitAlign /\ [][NextAlign]_vars

\* the number of elements the column of f holds
ColLen(i, f) == Len(recs[i].attrs[Col(cls, f).sattr].v)

(***************************************************************************)
(* C20. No alignment is enforced: in an efield record an assignment of a   *)
(* count to du_count or of a list to a per-antenna column succeeds         *)
(* whatever the other columns hold, stores the value assigned and leaves   *)
(* every other column as it was; so records whose per-antenna columns have *)
(* different lengths, and a du_count equal to none, are reached.           *)
(***************************************************************************)
C20_NoAlignment ==
  [][\A i \in Insts :
       (/\ last'.inst = i /\ last'.op = "set"
        /\ recs[i].live
        /\ last'.arg.t \in {"int", "list"}) =>
         /\ last'.exc = ""
         /\ Stored(cls, fld', recs'[i].attrs, cstr') = StoredForm(cls, fld', last'.arg)
         /\ \A g \in AlignFields \ {fld'} :
              recs'[i].attrs[Col(cls, g).sattr] = recs[i].attrs[Col(cls, g).sattr]]_vars

\* the six per-antenna columns hold 1, 2, 3, 4, 5 and 6 elements and du_count
\* says 7
C20_Witness ==
  /\ cls = "RawEfieldTree"
  /\ recs["A"].live
  /\ \A k \in 1..Len(PerAntenna) : ColLen("A", PerAntenna[k]) = k
  /\ recs["A"].attrs[Col(cls, "du_count").sattr].v[1].n = OddCount
  /\ last.op = "set" /\ last.exc = ""


(***************************************************************************)
(* C21. Self-assignment is the identity: after rec.f = rec.f on a          *)
(* variable-length column whose getter returns the column wrapper, the     *)
(* column holds what it held before.                                       *)
(***************************************************************************)
C21_SelfAssignIdentity ==
  \A i \in Insts :
    (/\ recs[i].live
     /\ last.inst = i /\ last.op = "set"
     /\ last.arg.ref = "self") =>
      recs[i].attrs[Col(cls, fld).sattr].v = last.arg.v

\* where the setter takes the wrapper, self-assignment raises nothing
C21_SelfAssignAccepted ==
  (/\ last.op = "set" /\ last.arg.ref = "self"
   /\ Col(cls, fld).setter = "vec" /\ Col(cls, fld).gate) => last.exc = ""


(***************************************************************************)
(* The value assigned, kept by the caller.  A behaviour of SpecAlias       *)
(* constructs one record, assigns values to one of its properties and      *)
(* changes the value last assigned in place (v[0] = e, or v.append(e) /    *)
(* v.push_back(e) on an empty one).                                        *)
(***************************************************************************)
\* the setter of f puts x itself in the column: "self._f._vector = value"
KeepsInput(c, f, attrs, strs, x) == Setter(c, f, attrs, strs, x).buf = "unbound"

\* an element unlike the ones assigned, of the kind of e
Other(e) ==
  CASE e.t = "str" -> ES("z")
    [] e.t = "seq" -> EV(<<7>>)
    [] OTHER -> EN(7)

\* the elements of x with the first one overwritten, or with one element of
\* the type of x if it has none; the first row of an array of two
\* dimensions keeps its length
Mutated(x) ==
  IF x.v = <<>>
  THEN <<CASE x.vt = "string" -> ES("z")
           [] x.vt = "vector<float>" -> EV(<<7>>)
           [] OTHER -> EN(7)>>
  ELSE IF x.t = "numpy.ndarray" /\ x.d = 2
  THEN [x.v EXCEPT ![1] = EV([j \in 1..Len(x.v[1].v) |-> 7])]
  ELSE [x.v EXCEPT ![1] = Other(x.v[1])]

\* the caller changes in place the value assigned last
MutateArg(i) ==
  /\ recs[i].live
  /\ last.inst = i /\ last.op = "set" /\ last.exc = ""
  /\ last.arg.t \in {"list", "numpy.ndarray", "StdVectorList", "ROOT.vector"}
  /\ last.arg.t = "numpy.ndarray" => last.arg.v # <<>>
  /\ LET v == [last.arg EXCEPT !.v = Mutated(last.arg)]
         row == Col(cls, fld)
     IN  /\ recs' = IF KeepsInput(cls, fld, recs[i].attrs, cstr, last.arg)
                    THEN [recs EXCEPT ![i].attrs[row.sattr].v = v.v]
                    ELSE recs
         /\ last' = Op("mutate", i, v, "", NoMsg, Size(cls, fld, recs[i].attrs, cstr))
  /\ UNCHANGED <<cls, fld, cstr, tree>>

NextAlias ==
  \/ New("A")
  \/ SetColumn("A")
  \/ MutateArg("A")

SpecAlias == Init /\ [][NextAlias]_vars

(***************************************************************************)
(* C22. An assignment copies its input: a change the caller makes to the   *)
(* value after it was assigned does not change what the column reads,      *)
(* whatever the shape of the value, a native vector included.              *)
(***************************************************************************)
C22_AssignCopies ==
  [][last'.op = "mutate" =>
       Getter(cls, fld, recs'[last'.inst].attrs, cstr')
         = Getter(cls, fld, recs[last'.inst].attrs, cstr)]_vars

\* a list, an array or a wrapper assigned is copied
C22_SequencesCopied ==
  [][(last'.op = "mutate" /\ last'.arg.t # "ROOT.vector") => recs' = recs]_vars


(***************************************************************************)
(* One record alone: a behaviour of SpecOne constructs one record and      *)
(* assigns every offered value to one of its properties.                   *)
(***************************************************************************)
NextOne ==
  \/ New("A")
  \/ SetString("A")
  \/ SetElem0("A")
  \/ SetReplace("A")
  \/ SetVec("A")
  \/ SetSovov("A")

SpecOne == Init /\ [][NextOne]_vars

(***************************************************************************)
(* One native vector given to two columns.  A behaviour of SpecShare       *)
(* constructs one record and assigns to two of its columns of sequences:   *)
(* lists, one ROOT.vector("vector<float>") the caller keeps, v, and what   *)
(* the getters of the two columns return; fld is the property assigned     *)
(* last.                                                                   *)
(***************************************************************************)
\* the two columns assigned
SharedPair(c) ==
  CASE c = "RawShowerTree" -> {"long_depth", "long_slantdepth"}
    [] c = "RawEfieldTree" -> {"trace_x", "trace_y"}
    [] OTHER -> {}

\* the caller's vector v: empty when made, it holds what the columns it was
\* given to have put in it
CallerVector(attrs) ==
  LET holders == {a \in DOMAIN attrs :
                    attrs[a].t = "StdVectorList" /\ attrs[a].ref = "v"}
  IN  PyVal("ROOT.vector", "vector<float>", 1, 0, "",
            IF holders = {} THEN <<>> ELSE attrs[CHOOSE a \in holders : TRUE].v,
            "v")

\* the values assigned to column f: v, lists the columns take, a list whose
\* refill stops part-way, a mapping, and what the getters of the two columns
\* return, the wrapper of f itself and the wrapper of the other column
ShareInputs(c, f, attrs) ==
  {CallerVector(attrs), PyList(<<EV(<<1>>)>>), PyList(Sample("vector<float>")),
   PyList(<<>>), PyList(<<EV(<<1>>), EN(1)>>), PyDict}
    \cup {IF g = f THEN PySelf(attrs[Col(c, g).sattr]) ELSE attrs[Col(c, g).gattr] :
            g \in SharedPair(c)}

InitShare ==
  /\ Init
  /\ fld \in SharedPair(cls)

\* rec.f = x for one of the two columns
AssignShared(i) ==
  /\ recs[i].live
  /\ \E f \in SharedPair(cls) : \E x \in ShareInputs(cls, f, recs[i].attrs) :
       LET r == Setter(cls, f, recs[i].attrs, cstr, x) IN
         /\ fld' = f
         /\ recs' = [recs EXCEPT ![i].attrs = r.attrs]
         /\ cstr' = r.cstr
         /\ last' = Op("set", i, x, r.exc, r.msg, Size(cls, f, recs[i].attrs, cstr))
  /\ UNCHANGED <<cls, tree>>

NextShare ==
  \/ New("A")
  \/ AssignShared("A")

SpecShare == InitShare /\ [][NextShare]_vars

(***************************************************************************)
(* C23. An assignment to one field, successful or rejected, leaves every   *)
(* other field of the same record unchanged: no other attribute of the     *)
(* record and no other text is written.                                    *)
(***************************************************************************)
C23_OtherFieldsKept ==
  [][\A i \in Insts :
       (last'.inst = i /\ last'.op = "set" /\ recs[i].live) =>
         LET own == Col(cls, fld').sattr IN
           /\ [recs'[i].attrs EXCEPT ![own] = recs[i].attrs[own]] = recs[i].attrs
           /\ IF own \in StringAttrs(cls)
              THEN [cstr' EXCEPT ![own] = cstr[own]] = cstr
              ELSE cstr' = cstr]_vars

\* the same as long as no two columns were given one native vector
C23_OtherFieldsKeptUnshared ==
  [][\A i \in Insts :
       (/\ last'.inst = i /\ last'.op = "set" /\ recs[i].live
        /\ recs[i].attrs[Col(cls, fld').sattr].ref \notin {"v"}) =>
         LET own == Col(cls, fld').sattr IN
           /\ [recs'[i].attrs EXCEPT ![own] = recs[i].attrs[own]] = recs[i].attrs
           /\ IF own \in StringAttrs(cls)
              THEN [cstr' EXCEPT ![own] = cstr[own]] = cstr
              ELSE cstr' = cstr]_vars


(***************************************************************************)
(* C24. Reading a field always succeeds on a constructed record: the       *)
(* getter of every declared field returns a value and raises nothing.      *)
(* (A getter is an expression over the attributes: it writes none.)        *)
(***************************************************************************)
C24_ReadSucceeds ==
  \A i \in Insts :
    recs[i].live => Getter(cls, fld, recs[i].attrs, cstr).exc = ""

\* the getters that read an attribute the record has and do not convert a
\* column of sequences
C24_ReadSucceedsElsewhere ==
  \A i \in Insts :
    (/\ recs[i].live
     /\ Col(cls, fld).gattr \in DOMAIN recs[i].attrs
     /\ ~ArrayOfRows(cls, fld)) =>
      Getter(cls, fld, recs[i].attrs, cstr).exc = ""


(***************************************************************************)
(* C25. A column declared with a one-element array is a one-element buffer *)
(* in every reachable state: one dimension, one element, whatever was      *)
(* assigned to it.                                                         *)
(***************************************************************************)
\* the column of f is declared np.zeros(1, dtype)
OneElement(c, f) == Col(c, f).decl = "ndarray" /\ Col(c, f).len = 1

C25_OneElementBuffer ==
  \A i \in Insts :
    (recs[i].live /\ OneElement(cls, fld)) =>
      LET obj == recs[i].attrs[Col(cls, fld).sattr]
      IN  obj.t = "numpy.ndarray" /\ obj.d = 1 /\ Len(obj.v) = 1

\* the scalars whose setter is "self._f[0] = value" are written in place
C25_WrittenInPlace ==
  [][\A i \in Insts :
       (/\ last'.inst = i /\ last'.op = "set" /\ recs[i].live
        /\ Col(cls, fld).setter = "elem0") =>
         LET obj == recs'[i].attrs[Col(cls, fld).sattr]
         IN  /\ obj.d = 1 /\ Len(obj.v) = 1
             /\ tree'[i] = tree[i]]_vars


(***************************************************************************)
(* The value a getter returned, changed in place by the caller             *)
(* (g = rec.f; g[0] = e, or g.append(e) on an empty wrapper).  A behaviour *)
(* of SpecGot constructs one record, assigns to one of its properties and  *)
(* changes what the getter of the property returned.                       *)
(***************************************************************************)
MutateGot(i) ==
  /\ recs[i].live
  /\ Col(cls, fld).getter \in {"nparray", "wrapper"}
  /\ LET row == Col(cls, fld)
         g == Getter(cls, fld, recs[i].attrs, cstr)
     IN  /\ g.exc = ""
         /\ g.val.t = "numpy.ndarray" => (g.val.d >= 1 /\ g.val.v # <<>>)
         /\ recs' = IF ReturnsColumn(cls, fld)
                    THEN [recs EXCEPT ![i].attrs[row.sattr].v = Mutated(g.val)]
                    ELSE recs
         /\ last' = Op("getmutate", i, [g.val EXCEPT !.v = Mutated(g.val)], "", NoMsg,
                       Size(cls, fld, recs[i].attrs, cstr))
  /\ UNCHANGED <<cls, fld, cstr, tree>>

NextGot ==
  \/ New("A")
  \/ SetColumn("A")
  \/ MutateGot("A")

SpecGot == Init /\ [][NextGot]_vars

(***************************************************************************)
(* C26. The value the getter of a fixed-size column returns is a copy: a   *)
(* change made to it leaves the column as it was; the value the getter of  *)
(* a variable-length column returns is the column: a change made to it is  *)
(* what the field reads next.                                              *)
(***************************************************************************)
C26_CopyOrLive ==
  [][\A i \in Insts :
       (last'.inst = i /\ last'.op = "getmutate") =>
         /\ Col(cls, fld).decl = "ndarray" => recs' = recs
         /\ Col(cls, fld).decl = "StdVectorList" =>
              Getter(cls, fld, recs'[i].attrs, cstr').val.v = last'.arg.v]_vars

\* the fixed-size getters return a copy
C26_FixedSizeCopy ==
  [][(last'.op = "getmutate" /\ Col(cls, fld).decl = "ndarray") => recs' = recs]_vars

\* the getters written "return self._f" return the column
C26_WrapperLive ==
  [][\A i \in Insts :
       (/\ last'.inst = i /\ last'.op = "getmutate"
        /\ Col(cls, fld).decl = "StdVectorList"
        /\ Col(cls, fld).getter = "wrapper") =>
         Getter(cls, fld, recs'[i].attrs, cstr').val.v = last'.arg.v]_vars


(***************************************************************************)
(* C27. A string field takes a str or a ROOT.std.string and nothing else:  *)
(* assigning one of the two replaces the whole text held, assigning a      *)
(* value of any other type raises and leaves the text held as it was; for  *)
(* every string field of the three classes.                                *)
(***************************************************************************)
C27_StringField ==
  [][\A i \in Insts :
       (/\ last'.inst = i /\ last'.op = "set" /\ recs[i].live
        /\ Col(cls, fld).decl = "StdString") =>
         IF last'.arg.t \in {"str", "ROOT.std.string"}
         THEN /\ last'.exc = ""
              /\ Stored(cls, fld, recs'[i].attrs, cstr').s = last'.arg.s
         ELSE /\ last'.exc # ""
              /\ Stored(cls, fld, recs'[i].attrs, cstr').s
                   = Stored(cls, fld, recs[i].attrs, cstr).s]_vars

\* a field that held a text was assigned a native string and holds its text
C27_Witness ==
  /\ cls = "RawEfieldTree" /\ fld = "refractivity_model"
  /\ last.op = "set" /\ last.exc = "" /\ last.inst = "A"
  /\ last.pre = 1
  /\ last.arg = PyStdString("b")
  /\ Stored(cls, fld, Target.attrs, cstr).s = "b"


(***************************************************************************)
(* The combined trace view of an efield record: a property with a getter   *)
(* and no setter.  A behaviour of SpecTrace constructs one efield record,  *)
(* assigns to one of the columns the view is made of, reads the view and   *)
(* tries to assign it.                                                     *)
(***************************************************************************)
\* the columns the view is made of, in the order of the getter
TraceParts == <<"du_id", "trace_x", "trace_y", "trace_z", "t_bin_size">>

\* np.concatenate(parts): arrays of no dimension cannot be concatenated, nor
\* arrays of different numbers of dimensions
RECURSIVE Joined(_)
Joined(parts) ==
  IF parts = <<>> THEN <<>> ELSE Head(parts).v \o Joined(Tail(parts))

NpConcatenate(parts) ==
  IF \/ \E k \in 1..Len(parts) : parts[k].d = 0
     \/ \E j, k \in 1..Len(parts) : parts[j].d # parts[k].d
  THEN Got("ValueError", PyNone)
  ELSE Got("", PyVal("numpy.ndarray", "float64", parts[1].d, 0, "", Joined(parts), ""))

\* the trace getter: the four wrappers and the value the property
\* t_bin_size returns
GetterTrace(attrs, strs) ==
  NpConcatenate([k \in 1..Len(TraceParts) |->
                   IF TraceParts[k] = "t_bin_size"
                   THEN Getter("RawEfieldTree", "t_bin_size", attrs, strs).val
                   ELSE attrs[Col("RawEfieldTree", TraceParts[k]).sattr]])

\* SetterTrace of a view that stores what it is given in trace_x
SetterTrace_Stores(attrs, strs, x) ==
  Outcome([attrs EXCEPT !["trace_x"].v = x.v], strs, "", NoMsg)

\* rec.trace = x: the property has no setter
SetterTrace(attrs, strs, x) == Outcome(attrs, strs, "AttributeError", NoMsg)

InitTrace ==
  /\ Init
  /\ cls = "RawEfieldTree"
  /\ fld \in {TraceParts[k] : k \in 1..Len(TraceParts)}

\* rec.trace
GetTrace(i) ==
  /\ recs[i].live
  /\ last' = [Op("get", i, PyNone, GetterTrace(recs[i].attrs, cstr).exc, NoMsg,
                 Size(cls, fld, recs[i].attrs, cstr)) EXCEPT !.name = "trace"]
  /\ UNCHANGED <<cls, fld, recs, cstr, tree>>

\* rec.trace = x
SetTrace(i) ==
  /\ recs[i].live
  /\ \E x \in {PyList(Sample("vector<float>")), PyList(<<>>), PyInt(1), PyNone} :
       LET r == SetterTrace(recs[i].attrs, cstr, x) IN
         /\ recs' = [recs EXCEPT ![i].attrs = r.attrs]
         /\ cstr' = r.cstr
         /\ last' = [Op("set", i, x, r.exc, r.msg, Size(cls, fld, recs[i].attrs, cstr))
                       EXCEPT !.name = "trace"]
  /\ UNCHANGED <<cls, fld, tree>>

NextTrace ==
  \/ New("A")
  \/ SetVec("A")
  \/ SetElem0("A")
  \/ GetTrace("A")
  \/ SetTrace("A")

SpecTrace == InitTrace /\ [][NextTrace]_vars

(***************************************************************************)
(* C28. The combined trace view is read-only: assigning it fails, and      *)
(* neither reading it nor trying to assign it changes du_id, trace_x,      *)
(* trace_y, trace_z or t_bin_size.                                         *)
(***************************************************************************)
C28_TraceReadOnly ==
  [][last'.name = "trace" =>
       /\ recs' = recs /\ cstr' = cstr
       /\ last'.op = "set" => last'.exc = "AttributeError"]_vars

\* trace_x holds two sequences and an assignment to trace was refused
C28_Witness ==
  /\ cls = "RawEfieldTree" /\ fld = "trace_x"
  /\ last.name = "trace" /\ last.op = "set" /\ last.exc = "AttributeError"
  /\ last.arg = PyList(Sample("vector<float>"))
  /\ Len(Target.attrs["trace_x"].v) = 2

=============================================================================
